---------------------------- MODULE Spec2Model ----------------------------
(***************************************************************************)
(* Exam simulator: the question extraction layer (PDFParser, VCEParser)    *)
(* and the session model (ExamSimulator).                                  *)
(*                                                                         *)
(* JavaScript values are tagged records.  A string is a sequence of        *)
(* one-character strings, so that the regular expressions of the parsers   *)
(* can be followed character by character.  An object is the sequence of   *)
(* its key/value pairs in insertion order (the order of for..in).          *)
(***************************************************************************)
EXTENDS Integers, Sequences, FiniteSets, TLC

VARIABLES
    questions,              \* ExamSimulator.questions
    currentQuestionIndex,   \* ExamSimulator.currentQuestionIndex
    timeRemaining,          \* ExamSimulator.timeRemaining
    mode,                   \* ExamSimulator.mode
    timer,                  \* ExamSimulator.timer: interval id, Null when none
    score,                  \* ExamSimulator.score
    examDuration,           \* ExamSimulator.examDuration
    examInProgress,         \* ExamSimulator.examInProgress
    examCompleted,          \* ExamSimulator.examCompleted
    intervals,              \* the interval callbacks the browser still fires
    display,                \* the page: what is visible, what was rendered
    ret                     \* the last operation: its name, arguments, outcome

vars == <<questions, currentQuestionIndex, timeRemaining, mode, timer, score,
          examDuration, examInProgress, examCompleted, intervals, display, ret>>

---------------------------------------------------------------------------
(* JavaScript values *)

Null == [t |-> "null"]
Undefined == [t |-> "undefined"]
Num(n) == [t |-> "num", n |-> n]
Str(s) == [t |-> "str", s |-> s]
Arr(a) == [t |-> "arr", a |-> a]
Obj(kv) == [t |-> "obj", kv |-> kv]
KV(k, v) == [k |-> k, v |-> v]

\* ToBoolean, as || and && and if apply it
Truthy(v) ==
    CASE v.t = "null" -> FALSE
      [] v.t = "undefined" -> FALSE
      [] v.t = "num" -> v.n # 0
      [] v.t = "str" -> v.s # <<>>
      [] OTHER -> TRUE

\* a || b
Or(a, b) == IF Truthy(a) THEN a ELSE b

\* typeof v === 'object' && v !== null
IsObjectNotNull(v) == v.t \in {"arr", "obj"}

\* key in v, for a v that is an object or an array (none of the parsers'
\* keys is an index or "length")
HasKey(v, key) == v.t = "obj" /\ \E i \in 1..Len(v.kv) : v.kv[i].k = key

\* v[key] for a v that is neither null nor undefined
Get(v, key) ==
    IF HasKey(v, key)
    THEN v.kv[CHOOSE i \in 1..Len(v.kv) : v.kv[i].k = key].v
    ELSE Undefined

\* outcomes of a call
Return(v) == [kind |-> "return", value |-> v]
Throw(e) == [kind |-> "throw", error |-> e]

TypeError == "TypeError"
RangeError == "RangeError"
SyntaxError == "SyntaxError"
NoQuestionsInJSON == "Could not identify questions in JSON structure"

RECURSIVE Concat(_)
Concat(ss) == IF ss = <<>> THEN <<>> ELSE Head(ss) \o Concat(Tail(ss))

---------------------------------------------------------------------------
(* VCEParser: the JSON adapter *)

EmptyStr == Str(<<>>)

\* a mapping that differs in the default of correctAnswer
MapQuestionDefaultOne(q) ==
    [text |-> Or(Or(Get(q, "text"), Get(q, "question")), EmptyStr),
     options |-> Or(Or(Get(q, "options"), Get(q, "answers")), Arr(<<>>)),
     correctAnswer |-> Or(Or(Get(q, "correctAnswer"), Get(q, "correct")), Num(1)),
     explanation |-> Or(Get(q, "explanation"), EmptyStr),
     userAnswer |-> Null]

\* the record of the direct and the exam.questions mappings
MapQuestion(q) ==
    [text |-> Or(Or(Get(q, "text"), Get(q, "question")), EmptyStr),
     options |-> Or(Or(Get(q, "options"), Get(q, "answers")), Arr(<<>>)),
     correctAnswer |-> Or(Or(Get(q, "correctAnswer"), Get(q, "correct")), Num(0)),
     explanation |-> Or(Get(q, "explanation"), EmptyStr),
     userAnswer |-> Null]

\* qs.map(q => ({...})): qs must be an array, and reading a property of a
\* null element throws
MapQuestions(qs) ==
    IF qs.t # "arr" THEN Throw(TypeError)
    ELSE IF \E i \in 1..Len(qs.a) : qs.a[i].t \in {"null", "undefined"}
    THEN Throw(TypeError)
    ELSE Return([i \in 1..Len(qs.a) |-> MapQuestion(qs.a[i])])

looksLikeQuestion(obj) ==
    LET hasQuestionText == Or(Or(Get(obj, "text"), Get(obj, "question")), Get(obj, "stem"))
        hasOptions == Or(Or(Get(obj, "options"), Get(obj, "answers")), Get(obj, "choices"))
        hasCorrectAnswer == HasKey(obj, "correctAnswer") \/ HasKey(obj, "correct")
                              \/ HasKey(obj, "answer")
    IN  Truthy(hasQuestionText) /\ Truthy(hasOptions) /\ hasCorrectAnswer

\* the record findQuestionsInObject pushes for an array item
FoundQuestion(item) ==
    [text |-> Or(Or(Or(Get(item, "text"), Get(item, "question")), Get(item, "stem")), EmptyStr),
     options |-> Or(Or(Or(Get(item, "options"), Get(item, "answers")), Get(item, "choices")),
                    Arr(<<>>)),
     correctAnswer |-> Or(Or(Or(Get(item, "correctAnswer"), Get(item, "correct")),
                             Get(item, "answer")), Num(0)),
     explanation |-> Or(Or(Get(item, "explanation"), Get(item, "rationale")), EmptyStr),
     userAnswer |-> Null]

RECURSIVE findQuestionsInObject(_)
findQuestionsInObject(obj) ==
    IF obj.t = "arr"
    THEN Concat([i \in 1..Len(obj.a) |->
            IF IsObjectNotNull(obj.a[i])
            THEN IF looksLikeQuestion(obj.a[i])
                 THEN <<FoundQuestion(obj.a[i])>>
                 ELSE findQuestionsInObject(obj.a[i])
            ELSE <<>>])
    ELSE IF obj.t = "obj"
    THEN Concat([i \in 1..Len(obj.kv) |->
            IF IsObjectNotNull(obj.kv[i].v)
            THEN findQuestionsInObject(obj.kv[i].v)
            ELSE <<>>])
    ELSE <<>>

parseFromJSON(jsonData) ==
    IF jsonData.t \in {"null", "undefined"} THEN Throw(TypeError)
    ELSE IF Truthy(Get(jsonData, "questions"))
    THEN MapQuestions(Get(jsonData, "questions"))
    ELSE IF Truthy(Get(jsonData, "exam")) /\ Truthy(Get(Get(jsonData, "exam"), "questions"))
    THEN MapQuestions(Get(Get(jsonData, "exam"), "questions"))
    ELSE LET possibleQuestions == findQuestionsInObject(jsonData)
         IN  IF Len(possibleQuestions) > 0
             THEN Return(possibleQuestions)
             ELSE Throw(NoQuestionsInJSON)

---------------------------------------------------------------------------
(* Strings: character classes and the String methods the parsers use.      *)
(* Positions are 1-based: JavaScript's index i is position i + 1, and      *)
(* s.substring(a, b) is SubSeq(s, a + 1, b).                               *)

Chars(str) == [i \in 1..Len(str) |-> SubSeq(str, i, i)]

LowerCase == Chars("abcdefghijklmnopqrstuvwxyz")
UpperCase == Chars("ABCDEFGHIJKLMNOPQRSTUVWXYZ")
UpperOf == [c \in {LowerCase[i] : i \in 1..26} |->
              UpperCase[CHOOSE i \in 1..26 : LowerCase[i] = c]]

\* c.toUpperCase(), and the folding of the i flag
Up(c) == IF c \in DOMAIN UpperOf THEN UpperOf[c] ELSE c

SpaceChars == {" ", "\t", "\n", "\r", "\f"}
DigitChars == {"0", "1", "2", "3", "4", "5", "6", "7", "8", "9"}
Digits == Chars("0123456789")
LineBreakChars == {"\n", "\r"}
OptionLetters == <<"A", "B", "C", "D">>
OptionLetterSet == {"A", "B", "C", "D"}

IsSpace(c) == c \in SpaceChars
IsDigit(c) == c \in DigitChars

\* the character at position i, "" outside the string
At(s, i) == IF i >= 1 /\ i <= Len(s) THEN s[i] ELSE ""

Min2(a, b) == IF a <= b THEN a ELSE b
Max2(a, b) == IF a >= b THEN a ELSE b

\* the least element of a set of positions, 0 when there is none
Least(S) == IF S = {} THEN 0 ELSE CHOOSE x \in S : \A y \in S : x <= y
Greatest(S) == IF S = {} THEN 0 ELSE CHOOSE x \in S : \A y \in S : x >= y

\* the literal lit stands at position i
StartsAt(s, i, lit) ==
    /\ i >= 1
    /\ i + Len(lit) - 1 <= Len(s)
    /\ \A k \in 1..Len(lit) : s[i + k - 1] = lit[k]

\* the same under the i flag; lit is given in upper case
StartsAtCI(s, i, lit) ==
    /\ i >= 1
    /\ i + Len(lit) - 1 <= Len(s)
    /\ \A k \in 1..Len(lit) : Up(s[i + k - 1]) = lit[k]

\* the first position >= i whose character is not in the class, Len(s) + 1
\* when the class runs to the end: where a greedy class* started at i stops
RunEnd(s, i, class) ==
    Least({j \in i..(Len(s) + 1) : At(s, j) \notin class})

\* s.indexOf(lit) as a position, 0 when absent
IndexOf(s, lit) == Least({i \in 1..Len(s) : StartsAt(s, i, lit)})

\* s.trim()
Trim(s) ==
    LET keep == {i \in 1..Len(s) : ~IsSpace(s[i])}
    IN  IF keep = {} THEN <<>> ELSE SubSeq(s, Least(keep), Greatest(keep))

\* the end (exclusive) of the line that position c is on: [^\n]+ from c
LineEnd(s, c) == Least({j \in c..(Len(s) + 1) : At(s, j) \in {"\n", ""}})

---------------------------------------------------------------------------
(* PDFParser.extractQuestionsFromText, first pattern                       *)
(*                                                                         *)
(*   /(?:Question|Q)?[\s\.:]?(\d+)[\.\s:]+([\s\S]+?)(?=(?:A\.[\s]+))       *)
(*    ([\s\S]+?)(?=(?:B\.[\s]+))([\s\S]+?)(?=(?:C\.[\s]+))                 *)
(*    ([\s\S]+?)(?=(?:D\.[\s]+))([\s\S]+?)                                 *)
(*    (?=(?:(?:Question|Q)?[\s\.:]?\d+|Answer|Correct|$))/gi               *)

SepChars == SpaceChars \cup {".", ":"}
NoMatch == [found |-> FALSE]

\* the lookahead  X\.[\s]+  under the i flag
LabelAtCI(s, i, letter) ==
    Up(At(s, i)) = letter /\ At(s, i + 1) = "." /\ IsSpace(At(s, i + 2))

LabelPositionsCI(s, letter) == {i \in 1..Len(s) : LabelAtCI(s, i, letter)}

\* the least position of P that is >= i, 0 when there is none
FirstFrom(P, i) == Least({j \in P : j >= i})

\* the lookahead  (?:Question|Q)?[\s\.:]?\d+  at position f
NumberAhead(s, f) ==
    \E pre \in {0, 1, 8} :
        /\ pre = 1 => Up(At(s, f)) = "Q"
        /\ pre = 8 => StartsAtCI(s, f, Chars("QUESTION"))
        /\ \/ IsDigit(At(s, f + pre))
           \/ At(s, f + pre) \in SepChars /\ IsDigit(At(s, f + pre + 1))

\* the closing lookahead of the pattern at position f
EndAhead(s, f) ==
    \/ f = Len(s) + 1
    \/ NumberAhead(s, f)
    \/ StartsAtCI(s, f, Chars("ANSWER"))
    \/ StartsAtCI(s, f, Chars("CORRECT"))

\* The match whose number starts at the digit at position d.  lab[k] is the
\* set of positions of the k-th option label.  The separators after the
\* number are taken greedily and the captures lazily, so the question text
\* starts after the whole run of separators and ends at the first label A
\* that is followed by B, C and D labels in this order; when that fails the
\* run gives its last character back and the text is that one character.
Pattern1At(s, lab, d) ==
    LET r == RunEnd(s, d, DigitChars)
        g0 == RunEnd(s, r, SepChars)
        rest(e) ==
            LET b == FirstFrom(lab[2], e + 1)
                c == IF b = 0 THEN 0 ELSE FirstFrom(lab[3], b + 1)
                dd == IF c = 0 THEN 0 ELSE FirstFrom(lab[4], c + 1)
            IN  <<b, c, dd>>
        e1 == FirstFrom(lab[1], g0 + 1)
        first == e1 # 0 /\ rest(e1)[3] # 0
        second == g0 - r >= 2 /\ g0 \in lab[1] /\ rest(g0)[3] # 0
        g == IF first THEN g0 ELSE g0 - 1
        e == IF first THEN e1 ELSE g0
        b == rest(e)[1]
        c == rest(e)[2]
        dd == rest(e)[3]
        f == Least({j \in (dd + 1)..(Len(s) + 1) : EndAhead(s, j)})
    IN  IF g0 > r /\ (first \/ second)
        THEN [found |-> TRUE,
              num |-> SubSeq(s, d, r - 1),
              questionText |-> SubSeq(s, g, e - 1),
              optionA |-> SubSeq(s, e, b - 1),
              optionB |-> SubSeq(s, b, c - 1),
              optionC |-> SubSeq(s, c, dd - 1),
              optionD |-> SubSeq(s, dd, f - 1),
              end |-> f]
        ELSE NoMatch

\* questionPattern1.exec(text) with lastIndex at position from: the match of
\* the leftmost digit that has one
Pattern1AtOrNone(s, lab, d) == IF d = 0 THEN NoMatch ELSE Pattern1At(s, lab, d)

Pattern1Exec(s, lab, from) ==
    Pattern1AtOrNone(s, lab,
        Least({i \in from..Len(s) : IsDigit(s[i]) /\ Pattern1At(s, lab, i).found}))

\* the matches of the while loop, in order
RECURSIVE Pattern1Matches(_, _, _)
RECURSIVE Pattern1MatchesAfter(_, _, _)
Pattern1Matches(s, lab, from) == Pattern1MatchesAfter(s, lab, Pattern1Exec(s, lab, from))

Pattern1MatchesAfter(s, lab, m) ==
    IF m.found THEN <<m>> \o Pattern1Matches(s, lab, m.end) ELSE <<>>

(* The answer and explanation patterns                                     *)
(*   Answer(?:\s*for)?\s*(?:question)?\s*${num}?[.:\s]+([A-D])             *)
(*   Explanation(?:\s*for)?\s*(?:question)?\s*${num}?[.:\s]+([^\n]+)       *)
(* under the i flag.  ${num}? makes only the last digit of num optional.   *)

\* the ways of taking the three optional parts, in the order a backtracking
\* matcher tries them
HeaderPaths ==
    << <<TRUE, TRUE, TRUE>>, <<TRUE, TRUE, FALSE>>, <<TRUE, FALSE, TRUE>>,
       <<TRUE, FALSE, FALSE>>, <<FALSE, TRUE, TRUE>>, <<FALSE, TRUE, FALSE>>,
       <<FALSE, FALSE, TRUE>>, <<FALSE, FALSE, FALSE>> >>

\* the first element of xs that is not none, none when there is no such
FirstOther(xs, none) ==
    LET hits == {i \in 1..Len(xs) : xs[i] # none}
    IN  IF hits = {} THEN none ELSE xs[Least(hits)]

\* the position after the word at p, 0 when it is not there
AfterWordAt(w, p, word) == IF StartsAtCI(w, p, word) THEN p + Len(word) ELSE 0

\* the position after \s*word from j when the word is taken, j when it is
\* not; 0 stands for a failed match
AfterWord(w, j, take, word) ==
    IF j = 0 \/ ~take THEN j ELSE AfterWordAt(w, RunEnd(w, j, SpaceChars), word)

\* the position after ${num}? when the digits start at pn: all digits but the
\* last are required, the last one is taken or not
AfterNumberAt(w, j, pn, num, takeLast) ==
    LET L == Len(num)
    IN  IF /\ L > 1 => StartsAt(w, pn, SubSeq(num, 1, L - 1))
           /\ takeLast => At(w, pn + L - 1) = num[L]
        THEN IF takeLast THEN pn + L ELSE IF L > 1 THEN pn + L - 1 ELSE j
        ELSE 0

AfterNumber(w, j, num, takeLast) ==
    IF j = 0 THEN 0 ELSE AfterNumberAt(w, j, RunEnd(w, j, SpaceChars), num, takeLast)

\* where [.:\s]+ has to start when the keyword ends before position j0 and
\* the optional parts are taken as path says; 0 when a part to take is absent
HeaderEnd(w, j0, num, path) ==
    AfterNumber(w, AfterWord(w, AfterWord(w, j0, path[1], Chars("FOR")),
                             path[2], Chars("QUESTION")),
                num, path[3])

\* ([A-D]) after the run [.:\s]+ that starts at j and ends before k
LetterAtRunEnd(w, j, k) ==
    IF k > j /\ Up(At(w, k)) \in OptionLetterSet THEN Up(At(w, k)) ELSE ""

LetterAfter(w, j) == IF j = 0 THEN "" ELSE LetterAtRunEnd(w, j, RunEnd(w, j, SepChars))

\* the letter captured by the answer pattern at keyword position a, ""
\* when it does not match there
AnswerLetterAt(w, a, num) ==
    IF StartsAtCI(w, a, Chars("ANSWER"))
    THEN FirstOther([i \in 1..Len(HeaderPaths) |->
                        LetterAfter(w, HeaderEnd(w, a + 6, num, HeaderPaths[i]))], "")
    ELSE ""

\* w.match(answerPattern): the captured letter in upper case, "" for null
AnswerLetter(w, num) == FirstOther([a \in 1..Len(w) |-> AnswerLetterAt(w, a, num)], "")

\* where the capture ([^\n]+) starts after a greedy run of at least `least`
\* class characters from j: at the end of the run, or on the last character
\* of the run that is not a line break when the run reaches the end of the
\* string; 0 when there is no such place
CaptureStartIn(w, j, k, least) ==
    Greatest({c \in (j + least)..Min2(k, Len(w)) : w[c] # "\n"})

CaptureStart(w, j, class, least) == CaptureStartIn(w, j, RunEnd(w, j, class), least)

\* the match whose capture ([^\n]+) starts at c, no match when c = 0
CaptureFrom(w, c) ==
    IF c = 0 THEN NoMatch ELSE [found |-> TRUE, text |-> SubSeq(w, c, LineEnd(w, c) - 1)]

CaptureAfter(w, j) == IF j = 0 THEN 0 ELSE CaptureStart(w, j, SepChars, 1)

\* where the capture of the explanation pattern starts when the keyword is
\* at position a, 0 when the pattern does not match there
ExplanationAt(w, a, num) ==
    IF StartsAtCI(w, a, Chars("EXPLANATION"))
    THEN FirstOther([i \in 1..Len(HeaderPaths) |->
                        CaptureAfter(w, HeaderEnd(w, a + 11, num, HeaderPaths[i]))], 0)
    ELSE 0

\* w.match(explanationPattern)
ExplanationMatch(w, num) ==
    CaptureFrom(w, FirstOther([a \in 1..Len(w) |-> ExplanationAt(w, a, num)], 0))

\* opt.replace(/^X\.[\s]+/, '').trim()
CleanOption(opt, letter) ==
    IF At(opt, 1) = letter /\ At(opt, 2) = "." /\ IsSpace(At(opt, 3))
    THEN Trim(SubSeq(opt, RunEnd(opt, 3, SpaceChars), Len(opt)))
    ELSE Trim(opt)

\* 'ABCD'.indexOf(letter)
LetterIndex(letter) ==
    IF letter \in OptionLetterSet
    THEN (CHOOSE i \in 1..4 : OptionLetters[i] = letter) - 1
    ELSE -1

\* the record pushed for a question: the answer letter is "" when none was
\* found, the explanation a match or no match
QuestionRecord(questionText, options, answerLetter, explanationMatch) ==
    [text |-> Str(questionText),
     options |-> Arr([k \in 1..Len(options) |-> Str(options[k])]),
     correctAnswer |-> Num(IF answerLetter = "" THEN 0 ELSE LetterIndex(answerLetter)),
     explanation |-> Str(IF explanationMatch.found THEN Trim(explanationMatch.text) ELSE <<>>),
     userAnswer |-> Null]

AnswerWindow == 200
ExplanationWindow == 500

\* the record pushed for a match of the first pattern
Pattern1Record(s, m) ==
    QuestionRecord(Trim(m.questionText),
                   <<CleanOption(m.optionA, "A"), CleanOption(m.optionB, "B"),
                     CleanOption(m.optionC, "C"), CleanOption(m.optionD, "D")>>,
                   AnswerLetter(SubSeq(s, m.end, Min2(Len(s), m.end + AnswerWindow - 1)),
                                m.num),
                   ExplanationMatch(SubSeq(s, m.end,
                                           Min2(Len(s), m.end + ExplanationWindow - 1)),
                                    m.num))

---------------------------------------------------------------------------
(* Helpers shared by the looser strategies *)

\* array.filter(Boolean) on an array of strings
NonEmpty(pieces) == SelectSeq(pieces, LAMBDA x : x # <<>>)

\* The end (exclusive) of a match of a block delimiter at position q, 0
\* when there is none:
\*   "numbered"  /(?:\n|\r\n?)+(?:\d+\.|\(?[0-9]+\))/i
\*   "lenient"   /(?:\n|\r\n?)+(?:\d+\.|\(?[0-9]+\)|Question\s+\d+:)/i
\*   "QUESTION"  /QUESTION\s+\d+/i
DelimiterEnd(s, q, kind) ==
    LET lb == RunEnd(s, q, LineBreakChars)
        de == RunEnd(s, lb, DigitChars)
        pp == IF At(s, lb) = "(" THEN lb + 1 ELSE lb
        pe == RunEnd(s, pp, DigitChars)
        kw == IF kind = "QUESTION" THEN q ELSE lb
        qs == RunEnd(s, kw + 8, SpaceChars)
        qe == RunEnd(s, qs, DigitChars)
        question == StartsAtCI(s, kw, Chars("QUESTION")) /\ qs > kw + 8 /\ qe > qs
    IN  IF kind = "QUESTION" THEN (IF question THEN qe ELSE 0)
        ELSE IF lb = q THEN 0
        ELSE IF de > lb /\ At(s, de) = "." THEN de + 1
        ELSE IF pe > pp /\ At(s, pe) = ")" THEN pe + 1
        ELSE IF kind = "lenient" /\ question /\ At(s, qe) = ":" THEN qe + 1
        ELSE 0

\* text.split(delimiter) from piece start p
RECURSIVE SplitOnDelimiter(_, _, _)
SplitOnDelimiter(s, p, kind) ==
    LET q == Least({i \in p..Len(s) : DelimiterEnd(s, i, kind) # 0})
    IN  IF q = 0
        THEN <<SubSeq(s, p, Len(s))>>
        ELSE <<SubSeq(s, p, q - 1)>>
                \o SplitOnDelimiter(s, DelimiterEnd(s, q, kind), kind)

\* s.split(/\n|\r\n?/) from piece start p
RECURSIVE SplitLines(_, _)
SplitLines(s, p) ==
    LET q == Least({i \in p..Len(s) : s[i] \in LineBreakChars})
        e == IF s[q] = "\r" /\ At(s, q + 1) = "\n" THEN q + 2 ELSE q + 1
    IN  IF q = 0
        THEN <<SubSeq(s, p, Len(s))>>
        ELSE <<SubSeq(s, p, q - 1)>> \o SplitLines(s, e)

\* the label  X\.\s  at position a, case-sensitive
LabelAt(s, a, letter) ==
    At(s, a) = letter /\ At(s, a + 1) = "." /\ IsSpace(At(s, a + 2))

\* s.match(/X\.\s+([^\n]+)/): the capture of the leftmost match
LabeledCapture(s, letter) ==
    CaptureFrom(s, FirstOther([i \in 1..Len(s) |->
                                  IF LabelAt(s, i, letter)
                                  THEN CaptureStart(s, i + 2, SpaceChars, 1) ELSE 0], 0))

\* the four option texts when each of A. to D. has a match, <<>> otherwise
TrimmedCaptures(captures) ==
    IF \A k \in 1..Len(captures) : captures[k].found
    THEN [k \in 1..Len(captures) |-> Trim(captures[k].text)]
    ELSE <<>>

LabeledOptions(s) == TrimmedCaptures([k \in 1..4 |-> LabeledCapture(s, OptionLetters[k])])

\* the concatenation of what F yields for the elements of xs, in order
MapConcat(xs, F(_)) == Concat([i \in 1..Len(xs) |-> F(xs[i])])

\* the first list when it has an element, the second otherwise
OrElse(first, second) == IF first # <<>> THEN first ELSE second

\* X\.\s+[^\n]+ at position a, followed for the letters before D by
\* (?:\n|\r\n?)+ and the same for the next letter
RECURSIVE OptionLinesAt(_, _, _)
OptionLinesAt(s, a, k) ==
    /\ LabelAt(s, a, OptionLetters[k])
    /\ \E cs \in (a + 3)..Min2(RunEnd(s, a + 2, SpaceChars), Len(s)) :
          /\ s[cs] # "\n"
          /\ k < 4 =>
                \E t \in (cs + 1)..Min2(LineEnd(s, cs), Len(s)) :
                    /\ s[t] \in LineBreakChars
                    /\ OptionLinesAt(s, RunEnd(s, t, LineBreakChars), k + 1)

\* section.match(/A\.\s+[^\n]+(?:\n|\r\n?)+B\. ... D\.\s+[^\n]+/g) is not null
HasOptionLines(s) == \E a \in 1..Len(s) : OptionLinesAt(s, a, 1)

\* s.match(/(?:answer|correct)[^A-D]*(A|B|C|D)/i): the captured letter in
\* upper case, "" for null.  Under the i flag [^A-D] excludes a-d as well.
KeywordLetter(s) ==
    LET after(p) ==
            IF StartsAtCI(s, p, Chars("ANSWER")) THEN p + 6
            ELSE IF StartsAtCI(s, p, Chars("CORRECT")) THEN p + 7
            ELSE 0
        letterFrom(j) == Least({k \in j..Len(s) : Up(s[k]) \in OptionLetterSet})
        p0 == Least({p \in 1..Len(s) : after(p) # 0 /\ letterFrom(after(p)) # 0})
    IN  IF p0 = 0 THEN "" ELSE Up(s[letterFrom(after(p0))])

MinSectionLength == 20
MinQuestionLength == 10

\* the record the second pattern pushes for a trimmed section, <<>> when it
\* is skipped
SectionRecord(section, options) ==
    LET firstOptionIndex == IndexOf(section, Chars("A."))
        questionText == Trim(SubSeq(section, 1, firstOptionIndex - 1))
    IN  IF /\ Len(section) >= MinSectionLength
           /\ HasOptionLines(section)
           /\ firstOptionIndex > 1
           /\ Len(questionText) > MinQuestionLength
           /\ options # <<>>
        THEN <<QuestionRecord(questionText, options, KeywordLetter(section), NoMatch)>>
        ELSE <<>>

Pattern2Sections(section) == SectionRecord(section, LabeledOptions(section))

Pattern2Section(raw) == Pattern2Sections(Trim(raw))

\* the records of the first pattern when it matches, of the second otherwise
RecordsOf(text, matches) ==
    IF matches # <<>>
    THEN [i \in 1..Len(matches) |-> Pattern1Record(text, matches[i])]
    ELSE MapConcat(NonEmpty(SplitOnDelimiter(text, 1, "numbered")), Pattern2Section)

extractQuestionsFromText(text) ==
    RecordsOf(text, Pattern1Matches(text,
                        [k \in 1..4 |-> LabelPositionsCI(text, OptionLetters[k])], 1))

---------------------------------------------------------------------------
(* PDFParser.extractQuestionsLenient *)

MinBlockLength == 50
OptionWindow == 500

\* block.match(/(?:explanation|reason)[\s:]*([^\n]+)/i)
LenientExplanation(s) ==
    LET after(p) ==
            IF StartsAtCI(s, p, Chars("EXPLANATION")) THEN p + 11
            ELSE IF StartsAtCI(s, p, Chars("REASON")) THEN p + 6
            ELSE 0
    IN  CaptureFrom(s, FirstOther([p \in 1..Len(s) |->
                                      IF after(p) = 0 THEN 0
                                      ELSE CaptureStart(s, after(p), SpaceChars \cup {":"}, 0)],
                                  0))

\* the record pushed for a block with these option texts, <<>> when the
\* block is skipped
BlockRecord(block, options) ==
    LET firstOptionIndex ==
            Least({IndexOf(block, <<OptionLetters[k], ".">>) : k \in 1..4} \ {0})
        before == IF firstOptionIndex > 1
                  THEN Trim(SubSeq(block, 1, firstOptionIndex - 1))
                  ELSE <<>>
        lines == SelectSeq(SplitLines(block, 1), LAMBDA line : Len(Trim(line)) > 0)
        questionText == IF Len(before) < MinQuestionLength /\ Len(lines) > 0
                        THEN Trim(lines[1])
                        ELSE before
    IN  IF /\ Len(block) >= MinBlockLength
           /\ options # <<>>
           /\ Len(questionText) >= MinQuestionLength
        THEN <<QuestionRecord(questionText, options, KeywordLetter(block),
                              LenientExplanation(block))>>
        ELSE <<>>

LenientBlock(block) == BlockRecord(block, LabeledOptions(block))

SentenceStops == {".", "?", "!"}

\* text.match(/[^\.\?!]+\?/g) from position p: each run of characters other
\* than . ? ! that a ? follows, with that ?
RECURSIVE Sentences(_, _)
Sentences(s, p) ==
    LET st == Least({i \in p..Len(s) : s[i] \notin SentenceStops})
        re == Least({j \in st..(Len(s) + 1) : At(s, j) \in SentenceStops \cup {""}})
    IN  IF st = 0 THEN <<>>
        ELSE IF At(s, re) = "?" THEN <<SubSeq(s, st, re)>> \o Sentences(s, re + 1)
        ELSE Sentences(s, re + 1)

\* the record pushed for a possible question with these option texts, <<>>
\* when an option is missing
SentenceRecord(questionText, options) ==
    IF options # <<>>
    THEN <<QuestionRecord(Trim(questionText), options, "", NoMatch)>>
    ELSE <<>>

\* text.substring(questionIndex + questionText.length, ... + 500)
TextAfter(s, from) == SubSeq(s, from, Min2(Len(s), from + OptionWindow - 1))

SentenceQuestion(s, questionText) ==
    SentenceRecord(questionText,
                   LabeledOptions(TextAfter(s, IndexOf(s, questionText) + Len(questionText))))

extractQuestionsLenient(text) ==
    OrElse(MapConcat(NonEmpty(SplitOnDelimiter(text, 1, "lenient")), LenientBlock),
           MapConcat(Sentences(text, 1), LAMBDA q : SentenceQuestion(text, q)))

---------------------------------------------------------------------------
(* VCEParser.parseFromText *)

\* options[index] = value on a JavaScript array: the array grows to
\* index + 1 elements and the elements never assigned are holes
SetOption(options, index, value) ==
    [k \in 1..Max2(Len(options), index + 1) |->
        IF k = index + 1 THEN value
        ELSE IF k <= Len(options) THEN options[k] ELSE Undefined]

\* [A-D]\.\s at position a
AnyLabelAt(s, a) == \E k \in 1..4 : LabelAt(s, a, OptionLetters[k])

\* block.match(/[A-D]\.\s+([^\n]+)/g) from position p, each match with its
\* label removed by replace(/^[A-D]\.\s+/, '') and trimmed
RECURSIVE OptionMatches(_, _)
OptionMatches(s, p) ==
    LET a == Least({i \in p..Len(s) :
                      AnyLabelAt(s, i) /\ CaptureStart(s, i + 2, SpaceChars, 1) # 0})
        c == CaptureStart(s, a + 2, SpaceChars, 1)
        e == LineEnd(s, c)
        opt == SubSeq(s, a, e - 1)
    IN  IF a = 0 THEN <<>>
        ELSE <<Trim(SubSeq(opt, RunEnd(opt, 3, SpaceChars), Len(opt)))>>
                \o OptionMatches(s, e)

\* block.match(/(?:Explanation|Correct Answer)[^:]*:([^$]+)/i)
BlockExplanation(s) ==
    LET after(p) ==
            IF StartsAtCI(s, p, Chars("EXPLANATION")) THEN p + 11
            ELSE IF StartsAtCI(s, p, Chars("CORRECT ANSWER")) THEN p + 14
            ELSE 0
        colon(p) == Least({i \in after(p)..Len(s) : s[i] = ":"})
        ok(p) == /\ after(p) # 0
                 /\ colon(p) # 0
                 /\ At(s, colon(p) + 1) \notin {"", "$"}
        p0 == Least({p \in 1..Len(s) : ok(p)})
        c == colon(p0) + 1
    IN  IF p0 = 0 THEN NoMatch
        ELSE [found |-> TRUE, text |-> SubSeq(s, c, RunEnd(s, c, {s[i] : i \in 1..Len(s)} \ {"$"}) - 1)]

MinOptions == 2

\* the record pushed for a block of the first approach, <<>> when skipped
VceBlockRecord(block, optionStart, options) ==
    IF optionStart # 0 /\ Len(options) >= MinOptions
    THEN <<QuestionRecord(Trim(SubSeq(block, 1, optionStart - 1)), options,
                          KeywordLetter(block), BlockExplanation(block))>>
    ELSE <<>>

VceBlock(block) ==
    VceBlockRecord(block, Least({a \in 1..Len(block) : AnyLabelAt(block, a)}),
                   OptionMatches(block, 1))

\* [A-D]\. at position a
BareLabelAt(s, a) == At(s, a) \in OptionLetterSet /\ At(s, a + 1) = "."

\* the end (exclusive) of (?:[A-D]\.[\s\S]*?){2,} from the label at lb, 0
\* when no second label follows: the lazy body stops at the next label and
\* further repetitions are taken only where a label follows at once
RECURSIVE LabelsEnd(_, _)
LabelsEnd(s, e) == IF BareLabelAt(s, e) THEN LabelsEnd(s, e + 2) ELSE e

TwoLabelsEnd(s, lb) ==
    LET l2 == Least({i \in (lb + 2)..Len(s) : BareLabelAt(s, i)})
    IN  IF BareLabelAt(s, lb) /\ l2 # 0 THEN LabelsEnd(s, l2 + 2) ELSE 0

\* the end (exclusive) of a match of
\*   /\d+\.\s+([^\n]+)(?:\n|\r\n?)+(?:[A-D]\.[\s\S]*?){2,}/
\* at position st, 0 when there is none
NumberedAt(s, st) ==
    LET r == RunEnd(s, st, DigitChars)
        k == RunEnd(s, r + 1, SpaceChars)
        after(t) == TwoLabelsEnd(s, RunEnd(s, t, LineBreakChars))
        breaks(cs) == {t \in (cs + 1)..Min2(LineEnd(s, cs), Len(s)) :
                          s[t] \in LineBreakChars /\ after(t) # 0}
        starts == {cs \in (r + 2)..Min2(k, Len(s)) : s[cs] # "\n" /\ breaks(cs) # {}}
    IN  IF r > st /\ At(s, r) = "." /\ starts # {}
        THEN after(Greatest(breaks(Greatest(starts))))
        ELSE 0

\* text.match(that pattern with the g flag) from position p
RECURSIVE NumberedMatches(_, _)
NumberedMatches(s, p) ==
    LET st == Least({i \in p..Len(s) : NumberedAt(s, i) # 0})
        e == NumberedAt(s, st)
    IN  IF st = 0 THEN <<>>
        ELSE <<SubSeq(s, st, e - 1)>> \o NumberedMatches(s, e)

\* line.match(/^([A-D])<sep>(.+)$/) where <sep> is \.\s+ (dotted) or
\* [\.)\s]+ : the option index and the capture
LineOption(line, dotted) ==
    LET class == IF dotted THEN SpaceChars ELSE SpaceChars \cup {".", ")"}
        from == IF dotted THEN 3 ELSE 2
        k == RunEnd(line, from, class)
    IN  IF /\ At(line, 1) \in OptionLetterSet
           /\ dotted => At(line, 2) = "."
           /\ At(line, from) \in class
           /\ Len(line) > from
        THEN [found |-> TRUE, index |-> LetterIndex(line[1]),
              text |-> SubSeq(line, Min2(k, Len(line)), Len(line))]
        ELSE NoMatch

\* the options array after the lines from i on
RECURSIVE OptionsFromLines(_, _, _)
OptionsFromLines(lines, i, options) ==
    LET optionMatch == LineOption(lines[i], TRUE)
    IN  IF i > Len(lines) THEN options
        ELSE OptionsFromLines(lines, i + 1,
                IF optionMatch.found
                THEN SetOption(options, optionMatch.index, Str(Trim(optionMatch.text)))
                ELSE options)

\* /Answer|Correct/i.test(line)
HasAnswerWord(line) ==
    \E p \in 1..Len(line) :
        StartsAtCI(line, p, Chars("ANSWER")) \/ StartsAtCI(line, p, Chars("CORRECT"))

\* lines[0].replace(/^\d+\.\s+/, '')
StripNumber(line) ==
    LET d == RunEnd(line, 1, DigitChars)
    IN  IF d > 1 /\ At(line, d) = "." /\ IsSpace(At(line, d + 1))
        THEN SubSeq(line, RunEnd(line, d + 1, SpaceChars), Len(line))
        ELSE line

\* the record pushed for a match of the numbered pattern, <<>> when skipped
NumberedQuestion(match) ==
    LET lines == NonEmpty(SplitLines(match, 1))
        questionText == Trim(StripNumber(lines[1]))
        options == OptionsFromLines(lines, 2, <<>>)
        answerLines == SelectSeq(lines, HasAnswerWord)
        letterAt == Least({i \in 1..Len(answerLines[1]) :
                              answerLines[1][i] \in OptionLetterSet})
    IN  IF Len(options) >= MinOptions
        THEN <<[text |-> Str(questionText),
                options |-> Arr(options),
                correctAnswer |-> Num(IF answerLines # <<>> /\ letterAt # 0
                                      THEN LetterIndex(answerLines[1][letterAt])
                                      ELSE 0),
                explanation |-> EmptyStr,
                userAnswer |-> Null]>>
        ELSE <<>>

LongLine == 50

\* the generic line scan from line i; current is <<>> or the one open question
RECURSIVE LineScan(_, _, _)
LineScan(lines, i, current) ==
    LET line == lines[i]
        optionMatch == LineOption(line, FALSE)
        options == IF optionMatch.found
                   THEN SetOption(current[1].options.a, optionMatch.index,
                                  Str(Trim(optionMatch.text)))
                   ELSE current[1].options.a
        nextLine == IF i < Len(lines) THEN lines[i + 1] ELSE <<>>
        nextIsOption == /\ At(nextLine, 1) \in OptionLetterSet
                        /\ At(nextLine, 2) \in SpaceChars \cup {".", ")"}
        updated == [current[1] EXCEPT !.options = Arr(options)]
    IN  IF i > Len(lines) THEN <<>>
        ELSE IF current = <<>>
        THEN IF At(line, Len(line)) = "?" \/ Len(line) > LongLine
             THEN LineScan(lines, i + 1,
                           <<[text |-> Str(line), options |-> Arr(<<>>),
                              correctAnswer |-> Num(0), explanation |-> EmptyStr,
                              userAnswer |-> Null]>>)
             ELSE LineScan(lines, i + 1, <<>>)
        ELSE IF Len(options) >= MinOptions /\ (~nextIsOption \/ i = Len(lines))
        THEN <<updated>> \o LineScan(lines, i + 1, <<>>)
        ELSE LineScan(lines, i + 1, <<updated>>)

\* lines.map(line => line.trim())
TrimAll(lines) == [i \in 1..Len(lines) |-> Trim(lines[i])]

parseFromText(text) ==
    OrElse(MapConcat(NonEmpty(SplitOnDelimiter(text, 1, "QUESTION")), VceBlock),
           OrElse(MapConcat(NumberedMatches(text, 1), NumberedQuestion),
                  LineScan(TrimAll(NonEmpty(SplitLines(text, 1))), 1, <<>>)))

---------------------------------------------------------------------------
(* PDFParser.parse: text extraction and the cascade of strategies.  A PDF *)
(* file is what pdf.js reports of it: for every page the text items with  *)
(* their string and their vertical position (transform[5]).               *)

LineThreshold == 5

Abs(n) == IF n < 0 THEN -n ELSE n

\* a page text that breaks the line at a difference of the threshold itself
RECURSIVE PageTextFromThreshold(_, _)
PageTextFromThreshold(items, i) ==
    IF i > Len(items) THEN <<>>
    ELSE (IF i > 1 /\ Abs(items[i - 1].y - items[i].y) >= LineThreshold
          THEN <<"\n">> ELSE <<>>)
            \o items[i].str \o PageTextFromThreshold(items, i + 1)

\* the text of a page from item i on: a line break goes before an item whose
\* vertical position differs from the previous item's by more than 5
RECURSIVE PageText(_, _)
PageText(items, i) ==
    IF i > Len(items) THEN <<>>
    ELSE (IF i > 1 /\ Abs(items[i - 1].y - items[i].y) > LineThreshold
          THEN <<"\n">> ELSE <<>>)
            \o items[i].str \o PageText(items, i + 1)

PageTexts(file) == [i \in 1..Len(file.pages) |-> PageText(file.pages[i], 1)]

FullText(file) ==
    Concat([i \in 1..Len(file.pages) |-> PageText(file.pages[i], 1) \o <<"\n", "\n">>])

FailedPlaceholder ==
    [text |-> Str(Chars("Could not parse questions from this PDF. Please check the format.")),
     options |-> Arr(<<Str(Chars("The PDF might have a non-standard format")),
                       Str(Chars("Text extraction might be incomplete")),
                       Str(Chars("Try a different PDF or format")),
                       Str(Chars("Contact support for assistance"))>>),
     correctAnswer |-> Num(0),
     explanation |-> Str(Chars("PDF parsing failed. Please check the console for more details.")),
     userAnswer |-> Null]

\* a strategy is run again when the result so far has at most this many records
RetryThreshold == 1

\* the cascade with the thresholds of the parser inlined in index.html: a
\* strategy is run again only when the result so far is empty
CascadeOnEmptyOnly(strategy1, pageQuestions, lenientQuestions) ==
    LET pageRan == Len(strategy1) = 0
        afterPages == IF pageRan /\ Len(pageQuestions) > Len(strategy1)
                      THEN pageQuestions ELSE strategy1
        lenientRan == Len(afterPages) = 0
        afterLenient == IF lenientRan /\ Len(lenientQuestions) > Len(afterPages)
                        THEN lenientQuestions ELSE afterPages
    IN  [strategy1 |-> strategy1,
         pageRan |-> pageRan,
         pageQuestions |-> IF pageRan THEN pageQuestions ELSE <<>>,
         lenientRan |-> lenientRan,
         lenientQuestions |-> IF lenientRan THEN lenientQuestions ELSE <<>>,
         outcome |-> Return(IF Len(afterLenient) = 0
                            THEN <<FailedPlaceholder>> ELSE afterLenient)]

\* a cascade that gives up on a single record as well
CascadeGivingUpOnOne(strategy1, pageQuestions, lenientQuestions) ==
    LET pageRan == Len(strategy1) <= RetryThreshold
        afterPages == IF pageRan /\ Len(pageQuestions) > Len(strategy1)
                      THEN pageQuestions ELSE strategy1
        lenientRan == Len(afterPages) <= RetryThreshold
        afterLenient == IF lenientRan /\ Len(lenientQuestions) > Len(afterPages)
                        THEN lenientQuestions ELSE afterPages
    IN  [strategy1 |-> strategy1,
         pageRan |-> pageRan,
         pageQuestions |-> IF pageRan THEN pageQuestions ELSE <<>>,
         lenientRan |-> lenientRan,
         lenientQuestions |-> IF lenientRan THEN lenientQuestions ELSE <<>>,
         outcome |-> Return(IF Len(afterLenient) <= RetryThreshold
                            THEN <<FailedPlaceholder>> ELSE afterLenient)]

\* the cascade of PDFParser.parse over what the three strategies find: the
\* value returned, with the locals of the function for the strategies that ran
Cascade(strategy1, pageQuestions, lenientQuestions) ==
    LET pageRan == Len(strategy1) <= RetryThreshold
        afterPages == IF pageRan /\ Len(pageQuestions) > Len(strategy1)
                      THEN pageQuestions ELSE strategy1
        lenientRan == Len(afterPages) <= RetryThreshold
        afterLenient == IF lenientRan /\ Len(lenientQuestions) > Len(afterPages)
                        THEN lenientQuestions ELSE afterPages
    IN  [strategy1 |-> strategy1,
         pageRan |-> pageRan,
         pageQuestions |-> IF pageRan THEN pageQuestions ELSE <<>>,
         lenientRan |-> lenientRan,
         lenientQuestions |-> IF lenientRan THEN lenientQuestions ELSE <<>>,
         outcome |-> Return(IF Len(afterLenient) = 0
                            THEN <<FailedPlaceholder>> ELSE afterLenient)]

ParseTexts(fullText, pageTexts) ==
    Cascade(extractQuestionsFromText(fullText),
            MapConcat(pageTexts, extractQuestionsFromText),
            extractQuestionsLenient(fullText))

PDFParser_parse(file) == ParseTexts(FullText(file), PageTexts(file))

---------------------------------------------------------------------------
(* PDF files to parse.  A page is laid out from lines of text items; the   *)
(* items of a line share a vertical position and consecutive lines are     *)
(* pitch units apart.                                                      *)

MaxPages == 2

PageLines ==
    << \* a numbered question with its answer line, the stem in two items
       << <<"1. What is", " the capital of France?">>, <<"A. Paris">>, <<"B. Rome">>,
          <<"C. Oslo">>, <<"D. Bonn">>, <<"Answer: C">> >>,
       \* an unnumbered question
       << <<"Which planet is known as the red planet?">>, <<"A. Mars">>, <<"B. Venus">>,
          <<"C. Earth">>, <<"D. Pluto">> >>,
       \* no question at all
       << <<"hello world">> >>,
       \* the first half of a numbered question ...
       << <<"7. Which gas do plants absorb from the air?">>, <<"A. Oxygen">>,
          <<"B. Carbon dioxide">> >>,
       \* ... and its second half
       << <<"C. Nitrogen">>, <<"D. Helium">> >>,
       \* an unnumbered question with a stray line between its options
       << <<"Which ocean is the largest on Earth?">>, <<"A. Atlantic">>, <<"B. Indian">>,
          <<"see the map">>, <<"C. Pacific">>, <<"D. Arctic">> >>,
       \* the same behind a parenthesised number
       << <<"(2) Which metal is liquid at room temperature?">>, <<"A. Iron">>,
          <<"B. Mercury">>, <<"see the table">>, <<"C. Gold">>, <<"D. Zinc">> >>,
       \* a short question
       << <<"Why?">>, <<"A. a">>, <<"B. b">>, <<"C. c">>, <<"D. d">> >>,
       \* an empty page
       << >> >>

\* the line spacings: exactly the threshold and just above it
Pitches == {LineThreshold, LineThreshold + 1}

\* the text items of a page with the given lines
PageItems(lines, pitch) ==
    Concat([l \in 1..Len(lines) |->
              [k \in 1..Len(lines[l]) |->
                  [str |-> Chars(lines[l][k]), y |-> (Len(lines) - l) * pitch]]])

RECURSIVE SeqsUpTo(_, _)
SeqsUpTo(S, n) ==
    IF n = 0 THEN {<<>>}
    ELSE LET shorter == SeqsUpTo(S, n - 1)
         IN  shorter \cup {Append(q, x) : q \in shorter, x \in S}

PdfFiles ==
    {[name |-> "exam.pdf", layout |-> layout, pitch |-> pitch] :
        layout \in SeqsUpTo(1..Len(PageLines), MaxPages), pitch \in Pitches}

\* what pdf.js reports of a file
PdfDocument(file) ==
    [pages |-> [i \in 1..Len(file.layout) |->
                    PageItems(PageLines[file.layout[i]], file.pitch)]]

---------------------------------------------------------------------------
(* VCEParser.parse.  The content of a file is its sequence of bytes, each  *)
(* written as the character it encodes ("NUL" is the byte 0); read as text *)
(* it is the same sequence.                                                *)

HeaderLength == 8

\* the signatures [0x56, 0x43, 0x45, 0x00] and [0x45, 0x58, 0x41, 0x4D]
possibleSignatures == << <<"V", "C", "E", "NUL">>, <<"E", "X", "A", "M">> >>

\* new Uint8Array(buffer, 0, 8) throws a RangeError on a shorter buffer
checkForBinaryFormat(buffer) ==
    IF Len(buffer) < HeaderLength THEN Throw(RangeError)
    ELSE Return(\E k \in 1..Len(possibleSignatures) :
                    \A i \in 1..Len(possibleSignatures[k]) :
                        buffer[i] = possibleSignatures[k][i])

parseBinaryVCE ==
    <<[text |-> Str(Chars("This is a sample question extracted from binary VCE. The parser needs to be updated to fully support this format.")),
       options |-> Arr(<<Str(Chars("Option A - This is just a placeholder")),
                         Str(Chars("Option B - The actual parsing depends on the binary format")),
                         Str(Chars("Option C - Please provide more details about the VCE format")),
                         Str(Chars("Option D - Or share a sample file for analysis"))>>),
       correctAnswer |-> Num(0),
       explanation |-> Str(Chars("This is a placeholder explanation. The actual VCE binary format parsing is not implemented.")),
       userAnswer |-> Null]>>

\* JSON.stringify(v), for the values of the model: strings without
\* characters to escape, non-negative integers
RECURSIVE NumChars(_)
NumChars(n) ==
    IF n < 10 THEN <<Digits[n + 1]>>
    ELSE NumChars(n \div 10) \o <<Digits[(n % 10) + 1]>>

RECURSIVE Stringify(_)
RECURSIVE StringifyAll(_, _)
Stringify(v) ==
    CASE v.t = "null" -> Chars("null")
      [] v.t = "num" -> NumChars(v.n)
      [] v.t = "str" -> <<"\"">> \o v.s \o <<"\"">>
      [] v.t = "arr" -> <<"[">> \o StringifyAll([i \in 1..Len(v.a) |-> Stringify(v.a[i])], 1)
                            \o <<"]">>
      [] v.t = "obj" -> <<"{">> \o StringifyAll([i \in 1..Len(v.kv) |->
                                        <<"\"">> \o Chars(v.kv[i].k) \o <<"\"", ":">>
                                            \o Stringify(v.kv[i].v)], 1)
                            \o <<"}">>

\* the parts from i on, with commas between them
StringifyAll(parts, i) ==
    IF i > Len(parts) THEN <<>>
    ELSE IF i = Len(parts) THEN parts[i]
    ELSE parts[i] \o <<",">> \o StringifyAll(parts, i + 1)

---------------------------------------------------------------------------
(* JSON documents to parse *)

MaxQuestions == 2

TextValues == {EmptyStr, Str(Chars("Pick one"))}
OptionsValues == {Arr(<<>>), Arr(<<Str(Chars("yes")), Str(Chars("no"))>>)}
AnswerValues == {Num(0), Num(1)}

\* question objects of the common shape
PlainQuestions ==
    {Obj(<<KV("text", t), KV("options", o), KV("correctAnswer", c)>>) :
        t \in TextValues, o \in OptionsValues, c \in AnswerValues}

DirectDocuments ==
    {Obj(<<KV("questions", Arr(qs))>>) : qs \in SeqsUpTo(PlainQuestions, MaxQuestions)}

ExamDocuments ==
    {Obj(<<KV("exam", Obj(<<KV("questions", Arr(<<q>>))>>))>>) : q \in PlainQuestions}

\* question objects under every choice of aliases
TextKeys == {"text", "question", "stem"}
OptionsKeys == {"options", "answers", "choices"}
AnswerKeys == {"correctAnswer", "correct", "answer"}

AliasQuestions ==
    {Obj(<<KV(tk, Str(Chars("Pick one"))),
           KV(ok, Arr(<<Str(Chars("yes")), Str(Chars("no"))>>)),
           KV(ak, c)>>) :
        tk \in TextKeys, ok \in OptionsKeys, ak \in AnswerKeys, c \in AnswerValues}

\* the places a question node can sit at
Places == {"root", "element", "property", "element of property", "element of element",
           "property of property", "property of element", "element among scalars"}

Nest(place, q) ==
    CASE place = "root" -> q
      [] place = "element" -> Arr(<<q>>)
      [] place = "property" -> Obj(<<KV("data", q)>>)
      [] place = "element of property" -> Obj(<<KV("data", Arr(<<q>>))>>)
      [] place = "element of element" -> Arr(<<Arr(<<q>>)>>)
      [] place = "property of property" -> Obj(<<KV("data", Obj(<<KV("item", q)>>))>>)
      [] place = "property of element" -> Arr(<<Obj(<<KV("item", q)>>)>>)
      [] place = "element among scalars" ->
            Obj(<<KV("title", Str(Chars("hello"))),
                  KV("data", Arr(<<Num(5), Null, q>>))>>)

NestedDocuments == {Nest(place, q) : place \in Places, q \in AliasQuestions}

\* valid JSON without a question
EmptyDocuments ==
    {Obj(<<KV("title", Str(Chars("hello")))>>), Obj(<<>>), Arr(<<>>), Num(5), Null,
     Str(Chars("hello")), Obj(<<KV("data", Obj(<<KV("list", Arr(<<Num(1), Num(2)>>))>>))>>),
     Obj(<<KV("questions", Num(0))>>), Obj(<<KV("exam", Obj(<<>>))>>)}

JsonDocuments == DirectDocuments \cup ExamDocuments \cup NestedDocuments \cup EmptyDocuments

---------------------------------------------------------------------------
(* VCEParser.parse *)

\* JSON.parse(text): the document that text is the JSON text of
JSONParse(text) ==
    LET ds == {d \in JsonDocuments : Stringify(d) = text}
    IN  IF ds = {} THEN Throw(SyntaxError) ELSE Return(CHOOSE d \in ds : TRUE)

\* new Error(`Failed to parse VCE file: ${error.message}`)
FailedToParse(error) == [message |-> "Failed to parse VCE file", cause |-> error]

NotRun == [kind |-> "not run"]

\* VCEParser.parse(file): the outcome, with the outcome of every step taken.
\* The inner try: parseFromJSON on the parsed text, and parseFromText when
\* JSON.parse or parseFromJSON throws
TextSteps(isBinary, jsonData, fromJSON, fromText) ==
    IF fromJSON.kind = "return"
    THEN [isBinary |-> isBinary, jsonData |-> jsonData, fromJSON |-> fromJSON,
          fromText |-> NotRun, outcome |-> fromJSON]
    ELSE [isBinary |-> isBinary, jsonData |-> jsonData, fromJSON |-> fromJSON,
          fromText |-> fromText, outcome |-> fromText]

JsonSteps(text, isBinary, jsonData) ==
    TextSteps(isBinary, jsonData,
              IF jsonData.kind = "return" THEN parseFromJSON(jsonData.value) ELSE NotRun,
              Return(parseFromText(text)))

\* the outer try, after checkForBinaryFormat
ParseSteps(text, isBinary) ==
    IF isBinary.kind = "throw"
    THEN [isBinary |-> isBinary, jsonData |-> NotRun, fromJSON |-> NotRun,
          fromText |-> NotRun, outcome |-> Throw(FailedToParse(isBinary.error))]
    ELSE IF isBinary.value
    THEN [isBinary |-> isBinary, jsonData |-> NotRun, fromJSON |-> NotRun,
          fromText |-> NotRun, outcome |-> Return(parseBinaryVCE)]
    ELSE JsonSteps(text, isBinary, JSONParse(text))

VCEParser_parse(file) == ParseSteps(file.content, checkForBinaryFormat(file.content))

---------------------------------------------------------------------------
(* VCE files to parse *)

MaxFragments == 2

TextFragments ==
    << "QUESTION 1\nWhat is two plus two?\nA. three\nB. four\nAnswer: B\nExplanation: the sum\n",
       "QUESTION 2\nPick the odd one\nA. one\nB. two\nC. three\nD. four\nCorrect Answer: D\n",
       "QUESTION 3\nTrue or false\nA. true\nB. false\nAnswer: D\n",
       "3. Which one\nC. both A. and B.\n",
       "Is it so?\nA) yes\nB) no\n",
       "hello world\n",
       "A. only one option\n" >>

TextContents ==
    {Concat([i \in 1..Len(fs) |-> Chars(TextFragments[fs[i]])]) :
        fs \in SeqsUpTo(1..Len(TextFragments), MaxFragments)}

\* contents that open with one of the signatures, and contents shorter than
\* the header that is read
SignedContents ==
    {<<"V", "C", "E", "NUL", "NUL", "NUL", "NUL", "NUL">>,
     <<"V", "C", "E", "NUL", "NUL", "NUL", "NUL", "NUL", "NUL">>,
     Chars("EXAMPLES"),
     Chars("EXAM 1\nQUESTION 1\nWhat is two plus two?\nA. three\nB. four\n"),
     Chars("EXAM{\"questions\":[]}")}

ShortContents ==
    {Chars("EXAM"), <<"V", "C", "E", "NUL">>, Chars("{\"a\":1}"), Chars("Why?"), Chars("[]"),
     <<"V", "C", "E", "NUL", "NUL", "NUL", "NUL">>}

OtherContents ==
    {Chars("VCEXAM 1\nIs it so?\nA) yes\nB) no\n"),
     Chars("exam 12345"),
     <<"V", "C", "E", " ", "NUL", "NUL", "NUL", "NUL">>}

JsonContents ==
    {Stringify(d) : d \in ExamDocuments \cup EmptyDocuments
                            \cup {Obj(<<KV("questions", Arr(qs))>>) :
                                     qs \in SeqsUpTo(PlainQuestions, 1)}
                            \cup {Nest(place, Obj(<<KV("stem", Str(Chars("Pick one"))),
                                                   KV("choices", Arr(<<Str(Chars("yes")),
                                                                       Str(Chars("no"))>>)),
                                                   KV("answer", c)>>)) :
                                     place \in Places, c \in AnswerValues}}

VceFiles ==
    {[name |-> "exam.vce", content |-> c] :
        c \in TextContents \cup SignedContents \cup ShortContents \cup OtherContents
                \cup JsonContents}

---------------------------------------------------------------------------
(* The parsers as state machines: a file (or a JSON document) is chosen    *)
(* initially and the one step parses it.  The session stays as constructed. *)

SessionVars == <<questions, currentQuestionIndex, timeRemaining, mode, timer, score,
                 examDuration, examInProgress, examCompleted, intervals>>

\* the page as index.html declares it: the upload section visible, the exam
\* and results containers and the finish button hidden.  shown is the
\* userAnswer the question on display was rendered with, and updates the
\* number of updateTimer calls that setTimeout has pending
PageLoaded ==
    [upload |-> TRUE, exam |-> FALSE, results |-> FALSE, finish |-> FALSE,
     shown |-> Null, updates |-> 0]

\* new ExamSimulator(), when the page is loaded
Constructed ==
    /\ questions = <<>>
    /\ currentQuestionIndex = 0
    /\ timeRemaining = 0
    /\ mode = "study"
    /\ timer = Null
    /\ score = 0
    /\ examDuration = 60
    /\ examInProgress = FALSE
    /\ examCompleted = FALSE
    /\ intervals = {}
    /\ display = PageLoaded

InitPdf == Constructed /\ ret \in {[op |-> "file", file |-> f] : f \in PdfFiles}

ParsePdf ==
    /\ ret.op = "file"
    /\ ret' = [op |-> "PDFParser.parse", file |-> ret.file,
               fullText |-> FullText(PdfDocument(ret.file)),
               pageTexts |-> PageTexts(PdfDocument(ret.file)),
               trace |-> PDFParser_parse(PdfDocument(ret.file))]
    /\ UNCHANGED <<SessionVars, display>>

SpecPdf == InitPdf /\ [][ParsePdf]_vars

InitVce == Constructed /\ ret \in {[op |-> "file", file |-> f] : f \in VceFiles}

ParseVce ==
    /\ ret.op = "file"
    /\ ret' = [op |-> "VCEParser.parse", file |-> ret.file,
               trace |-> VCEParser_parse(ret.file)]
    /\ UNCHANGED <<SessionVars, display>>

SpecVce == InitVce /\ [][ParseVce]_vars

InitJson == Constructed /\ ret \in {[op |-> "document", jsonData |-> d] : d \in JsonDocuments}

ParseJson ==
    /\ ret.op = "document"
    /\ ret' = [op |-> "parseFromJSON", jsonData |-> ret.jsonData,
               outcome |-> parseFromJSON(ret.jsonData)]
    /\ UNCHANGED <<SessionVars, display>>

SpecJson == InitJson /\ [][ParseJson]_vars

---------------------------------------------------------------------------
(* ExamSimulator: the session.  Every method is one step; ret records the  *)
(* method called last, its arguments and its outcome.  intervals is the    *)
(* set of the interval timers that are armed, by their id.                 *)

\* name.toLowerCase()
toLowerCase(s) ==
    [i \in 1..Len(s) |->
        IF \E k \in 1..26 : UpperCase[k] = s[i]
        THEN LowerCase[CHOOSE k \in 1..26 : UpperCase[k] = s[i]]
        ELSE s[i]]

\* s.endsWith(suffix)
endsWith(s, suffix) == Len(suffix) <= Len(s) /\ StartsAt(s, Len(s) - Len(suffix) + 1, suffix)

UnsupportedFormat == "Unsupported file format. Please use VCE or PDF files."
NoQuestionsFound == "No questions found in the file."
InvalidIndex == "Invalid question index"

\* the files a user loads
SessionFiles ==
    {[name |-> "exam.vce",
      content |-> Chars("QUESTION 1\nWhat is two plus two?\nA. three\nB. four\nAnswer: B\nExplanation: the sum\nQUESTION 2\nTrue or false\nA. true\nB. false\nAnswer: A\n")],
     [name |-> "EXAM.VCE", content |-> Chars("hello world\n")],
     [name |-> "short.vce", content |-> Chars("EXAM")],
     [name |-> "exam.pdf", layout |-> <<2>>, pitch |-> LineThreshold + 1],
     [name |-> "scan.PDF", layout |-> <<3>>, pitch |-> LineThreshold + 1],
     [name |-> "notes.txt", content |-> Chars("1. Which one\nA. this\nB. that\n")]}

\* the parser loadExam picks by the extension of the name, and its outcome
ParserOutcome(file) ==
    IF endsWith(toLowerCase(Chars(file.name)), Chars(".vce"))
    THEN VCEParser_parse(file).outcome
    ELSE IF endsWith(toLowerCase(Chars(file.name)), Chars(".pdf"))
    THEN PDFParser_parse(PdfDocument(file)).outcome
    ELSE Throw(UnsupportedFormat)

\* the outcome for every file a user loads: parsing depends on the file alone
ParserOutcomes == {<<file, ParserOutcome(file)>> : file \in SessionFiles}

ParsedFile(file) == (CHOOSE p \in ParserOutcomes : p[1] = file)[2]

\* questions[index] of a JavaScript array
ElementAt(array, index) ==
    IF index >= 0 /\ index < Len(array) THEN array[index + 1] ELSE Undefined

\* getCurrentQuestion() on these fields: reading userAnswer of undefined
\* throws a TypeError
getCurrentQuestion(qs, index) ==
    IF ElementAt(qs, index) = Undefined THEN Throw(TypeError)
    ELSE Return([questionIndex |-> index,
                 totalQuestions |-> Len(qs),
                 question |-> ElementAt(qs, index),
                 userAnswer |-> ElementAt(qs, index).userAnswer])

\* question.userAnswer !== null && question.userAnswer !== undefined
IsAnswered(question) == question.userAnswer \notin {Null, Undefined}

\* answeredQuestions, as endExam and getResults count it
AnsweredCount(qs) == Cardinality({i \in 1..Len(qs) : IsAnswered(qs[i])})

\* a score that counts every answered record
AnsweredScore(qs) == Cardinality({i \in 1..Len(qs) : IsAnswered(qs[i])})

\* the score endExam computes
ComputedScore(qs) ==
    Cardinality({i \in 1..Len(qs) :
                    IsAnswered(qs[i]) /\ qs[i].userAnswer = qs[i].correctAnswer})

NaN == [t |-> "NaN"]

(* Numbers are IEEE 754 doubles.  A positive double is written here as    *)
(* [hi, mid, lo, exp]: its significand of 53 bits, the first one 1, is    *)
(* the integer hi * 2^40 + mid * 2^20 + lo, with hi of 13 bits and mid    *)
(* and lo of 20 bits, and its value is the significand times 2^exp.       *)

SignificandBits == 53
LimbBits == 20
Limb == 2^LimbBits
HiBits == SignificandBits - 2 * LimbBits

\* the next double above x
NextUp(x) ==
    IF x.lo + 1 < Limb THEN [x EXCEPT !.lo = x.lo + 1]
    ELSE IF x.mid + 1 < Limb THEN [x EXCEPT !.lo = 0, !.mid = x.mid + 1]
    ELSE IF x.hi + 1 < 2^HiBits THEN [x EXCEPT !.lo = 0, !.mid = 0, !.hi = x.hi + 1]
    ELSE [hi |-> 2^(HiBits - 1), mid |-> 0, lo |-> 0, exp |-> x.exp + 1]

\* round to nearest, ties to even: x is the result cut off, dropped what
\* was cut off, on the scale where half is one half of the last bit
Nearest(x, dropped, half) ==
    IF dropped > half \/ (dropped = half /\ x.lo % 2 = 1) THEN NextUp(x) ELSE x

RECURSIVE Normalizing(_, _)
\* how often the dividend a <= b is doubled to reach b
Normalizing(a, b) == IF a >= b THEN 0 ELSE 1 + Normalizing(2 * a, b)

\* long division by b: the limbs of the quotient, r the remainder so far
DivideLo(q1, q2, r, b, k) ==
    Nearest([hi |-> q1, mid |-> q2, lo |-> (r * Limb) \div b, exp |-> 1 - SignificandBits - k],
            2 * ((r * Limb) % b), b)

DivideMid(q1, r, b, k) == DivideLo(q1, (r * Limb) \div b, (r * Limb) % b, b, k)

DivideHi(r, b, k) == DivideMid((r * 2^(HiBits - 1)) \div b, (r * 2^(HiBits - 1)) % b, b, k)

\* a / b for integers 0 < a <= b
Divide(a, b) == DivideHi(a * 2^Normalizing(a, b), b, Normalizing(a, b))

\* the product with limbs hi, mid, lo, of d bits more than a significand,
\* cut off to a significand and rounded
ProductRounded(hi, mid, lo, exp, d) ==
    Nearest([hi |-> hi \div 2^d,
             mid |-> (mid \div 2^d) + ((hi % 2^d) * 2^(LimbBits - d)),
             lo |-> (lo \div 2^d) + ((mid % 2^d) * 2^(LimbBits - d)),
             exp |-> exp + d],
            lo % (2^d), 2^(d - 1))

\* the limbs of the product, hi not cut off to a limb: it has 6 bits more
\* than a significand, or 7
ProductOf(hi, mid, lo, exp) ==
    ProductRounded(hi, mid, lo, exp, IF hi >= 2^(HiBits + 6) THEN 7 ELSE 6)

TimesHundredMid(x, mid, lo) == ProductOf((x.hi * 100) + (mid \div Limb), mid % Limb, lo, x.exp)

TimesHundredLo(x, lo) == TimesHundredMid(x, (x.mid * 100) + (lo \div Limb), lo % Limb)

\* x * 100 for a double x
TimesHundred(x) == TimesHundredLo(x, x.lo * 100)

\* the bits of x.hi that are after the point
FractionBits(x) == - x.exp - 2 * LimbBits

\* Math.round(x) for a double 1/2 <= x < 2^12: the integer part of x, plus
\* one when the fraction is a half or more
MathRound(x) ==
    (x.hi \div 2^FractionBits(x)) + ((x.hi \div 2^(FractionBits(x) - 1)) % 2)

\* the greatest number of records a percentage is computed for
MaxTotal == 40

\* Math.round((sc / total) * 100) for 0 <= sc <= total
RoundedPercentages ==
    [total \in 1..MaxTotal |->
        [sc \in 0..total |->
            IF sc = 0 THEN 0 ELSE MathRound(TimesHundred(Divide(sc, total)))]]

\* Math.round((sc / total) * 100)
Percentage(sc, total) ==
    IF total = 0 THEN NaN ELSE Num(RoundedPercentages[total][sc])

NoExplanation == Str(Chars("No explanation available."))

MaxDuration == 1
MaxAnswer == 1
MaxJump == 2

Modes == {"study", "exam"}
Durations == 0..MaxDuration
AnswerIndices == 0..MaxAnswer
JumpIndices == (-1)..MaxJump

\* the ids of interval timers: startTimer clears the interval it replaces,
\* so two ids are more than are ever armed together
IntervalIds == 1..2

\* the intervals left armed by  if (this.timer) clearInterval(this.timer)
Cleared == IF Truthy(timer) THEN intervals \ {timer.n} ELSE intervals

\* a loadExam that keeps the index of the session it replaces
LoadExamKeepingIndex(file) ==
    LET parsed == ParsedFile(file)
    IN  IF parsed.kind = "throw"
        THEN /\ ret' = [op |-> "loadExam", file |-> file.name, outcome |-> parsed]
             /\ UNCHANGED SessionVars
        ELSE /\ questions' = parsed.value
             /\ IF parsed.value = <<>>
                THEN /\ ret' = [op |-> "loadExam", file |-> file.name,
                                outcome |-> Throw(NoQuestionsFound)]
                     /\ UNCHANGED <<score, examCompleted>>
                ELSE /\ score' = 0
                     /\ examCompleted' = FALSE
                     /\ ret' = [op |-> "loadExam", file |-> file.name,
                                outcome |-> Return([questionCount |-> Len(parsed.value)])]
             /\ UNCHANGED <<currentQuestionIndex, timeRemaining, mode, timer, examDuration,
                            examInProgress, intervals>>

\* loadExam(file), at the time the promise settles
LoadExam(file) ==
    LET parsed == ParsedFile(file)
    IN  IF parsed.kind = "throw"
        THEN /\ ret' = [op |-> "loadExam", file |-> file.name, outcome |-> parsed]
             /\ UNCHANGED SessionVars
        ELSE /\ questions' = parsed.value
             /\ IF parsed.value = <<>>
                THEN /\ ret' = [op |-> "loadExam", file |-> file.name,
                                outcome |-> Throw(NoQuestionsFound)]
                     /\ UNCHANGED <<currentQuestionIndex, score, examCompleted>>
                ELSE /\ currentQuestionIndex' = 0
                     /\ score' = 0
                     /\ examCompleted' = FALSE
                     /\ ret' = [op |-> "loadExam", file |-> file.name,
                                outcome |-> Return([questionCount |-> Len(parsed.value)])]
             /\ UNCHANGED <<timeRemaining, mode, timer, examDuration, examInProgress,
                            intervals>>

\* a startExam whose startTimer arms the new interval without clearing the
\* one it replaces
StartExamKeepingInterval(m, duration) ==
    /\ mode' = m
    /\ examDuration' = duration
    /\ currentQuestionIndex' = 0
    /\ score' = 0
    /\ examInProgress' = TRUE
    /\ examCompleted' = FALSE
    /\ questions' = [i \in 1..Len(questions) |-> [questions[i] EXCEPT !.userAnswer = Null]]
    /\ IF m = "exam"
       THEN /\ timeRemaining' = duration * 60
            /\ timer' = IF IntervalIds \subseteq intervals THEN timer
                         ELSE Num(CHOOSE id \in IntervalIds : id \notin intervals)
            /\ intervals' = intervals \cup {timer'.n}
       ELSE UNCHANGED <<timeRemaining, timer, intervals>>
    /\ ret' = [op |-> "startExam", mode |-> m, duration |-> duration,
               outcome |-> getCurrentQuestion(questions', 0)]

\* a startExam that leaves examCompleted as it finds it
StartExamLeavingCompleted(m, duration) ==
    /\ mode' = m
    /\ examDuration' = duration
    /\ currentQuestionIndex' = 0
    /\ score' = 0
    /\ examInProgress' = TRUE
    /\ questions' = [i \in 1..Len(questions) |-> [questions[i] EXCEPT !.userAnswer = Null]]
    /\ IF m = "exam"
       THEN /\ timeRemaining' = duration * 60
            /\ timer' = Num(CHOOSE id \in IntervalIds : id \notin Cleared)
            /\ intervals' = Cleared \cup {timer'.n}
       ELSE UNCHANGED <<timeRemaining, timer, intervals>>
    /\ ret' = [op |-> "startExam", mode |-> m, duration |-> duration,
               outcome |-> getCurrentQuestion(questions', 0)]
    /\ UNCHANGED examCompleted

\* startExam(m, duration), with startTimer() in exam mode
StartExam(m, duration) ==
    /\ mode' = m
    /\ examDuration' = duration
    /\ currentQuestionIndex' = 0
    /\ score' = 0
    /\ examInProgress' = TRUE
    /\ examCompleted' = FALSE
    /\ questions' = [i \in 1..Len(questions) |-> [questions[i] EXCEPT !.userAnswer = Null]]
    /\ IF m = "exam"
       THEN /\ timeRemaining' = duration * 60
            /\ timer' = Num(CHOOSE id \in IntervalIds : id \notin Cleared)
            /\ intervals' = Cleared \cup {timer'.n}
       ELSE UNCHANGED <<timeRemaining, timer, intervals>>
    /\ ret' = [op |-> "startExam", mode |-> m, duration |-> duration,
               outcome |-> getCurrentQuestion(questions', 0)]

\* what endExam() does to the session
EndExamBody ==
    /\ timer' = IF Truthy(timer) THEN Null ELSE timer
    /\ intervals' = Cleared
    /\ examInProgress' = FALSE
    /\ examCompleted' = TRUE
    /\ score' = ComputedScore(questions)

\* a callback that ends the exam one tick late, below zero
TickEndingBelowZero(id) ==
    /\ id \in intervals
    /\ timeRemaining' = timeRemaining - 1
    /\ IF timeRemaining - 1 < 0
       THEN EndExamBody
       ELSE UNCHANGED <<timer, intervals, examInProgress, examCompleted, score>>
    /\ ret' = [op |-> "tick", id |-> id]
    /\ UNCHANGED <<questions, currentQuestionIndex, mode, examDuration>>

\* the callback of the interval id
Tick(id) ==
    /\ id \in intervals
    /\ timeRemaining' = timeRemaining - 1
    /\ IF timeRemaining - 1 <= 0
       THEN EndExamBody
       ELSE UNCHANGED <<timer, intervals, examInProgress, examCompleted, score>>
    /\ ret' = [op |-> "tick", id |-> id]
    /\ UNCHANGED <<questions, currentQuestionIndex, mode, examDuration>>

\* an answerQuestion that writes the answer into every record
AnswerEveryQuestion(answerIndex) ==
    LET question == ElementAt(questions, currentQuestionIndex)
    IN  IF question = Undefined
        THEN /\ ret' = [op |-> "answerQuestion", answerIndex |-> answerIndex,
                        outcome |-> Throw(TypeError)]
             /\ UNCHANGED SessionVars
        ELSE /\ questions' = [i \in 1..Len(questions) |->
                                [questions[i] EXCEPT !.userAnswer = Num(answerIndex)]]
             /\ ret' = [op |-> "answerQuestion", answerIndex |-> answerIndex,
                        outcome |->
                            Return(IF mode = "study"
                                   THEN [isCorrect |-> Num(answerIndex) = question.correctAnswer,
                                         correctAnswer |-> question.correctAnswer,
                                         explanation |-> Or(question.explanation, NoExplanation)]
                                   ELSE [recorded |-> TRUE])]
             /\ UNCHANGED <<currentQuestionIndex, timeRemaining, mode, timer, score,
                            examDuration, examInProgress, examCompleted, intervals>>

\* answerQuestion(answerIndex): writing userAnswer of undefined throws a
\* TypeError
AnswerQuestion(answerIndex) ==
    LET question == ElementAt(questions, currentQuestionIndex)
    IN  IF question = Undefined
        THEN /\ ret' = [op |-> "answerQuestion", answerIndex |-> answerIndex,
                        outcome |-> Throw(TypeError)]
             /\ UNCHANGED SessionVars
        ELSE /\ questions' = [questions EXCEPT
                                ![currentQuestionIndex + 1].userAnswer = Num(answerIndex)]
             /\ ret' = [op |-> "answerQuestion", answerIndex |-> answerIndex,
                        outcome |->
                            Return(IF mode = "study"
                                   THEN [isCorrect |-> Num(answerIndex) = question.correctAnswer,
                                         correctAnswer |-> question.correctAnswer,
                                         explanation |-> Or(question.explanation, NoExplanation)]
                                   ELSE [recorded |-> TRUE])]
             /\ UNCHANGED <<currentQuestionIndex, timeRemaining, mode, timer, score,
                            examDuration, examInProgress, examCompleted, intervals>>

\* a nextQuestion that wraps around at the last question
NextQuestionWrapping ==
    /\ IF currentQuestionIndex < Len(questions) - 1
       THEN /\ currentQuestionIndex' = currentQuestionIndex + 1
            /\ ret' = [op |-> "nextQuestion",
                       outcome |-> getCurrentQuestion(questions, currentQuestionIndex + 1)]
       ELSE /\ currentQuestionIndex' = 0
            /\ ret' = [op |-> "nextQuestion", outcome |-> getCurrentQuestion(questions, 0)]
    /\ UNCHANGED <<questions, timeRemaining, mode, timer, score, examDuration,
                   examInProgress, examCompleted, intervals>>

NextQuestion ==
    /\ IF currentQuestionIndex < Len(questions) - 1
       THEN /\ currentQuestionIndex' = currentQuestionIndex + 1
            /\ ret' = [op |-> "nextQuestion",
                       outcome |-> getCurrentQuestion(questions, currentQuestionIndex + 1)]
       ELSE /\ ret' = [op |-> "nextQuestion", outcome |-> Return(Null)]
            /\ UNCHANGED currentQuestionIndex
    /\ UNCHANGED <<questions, timeRemaining, mode, timer, score, examDuration,
                   examInProgress, examCompleted, intervals>>

PreviousQuestion ==
    /\ IF currentQuestionIndex > 0
       THEN /\ currentQuestionIndex' = currentQuestionIndex - 1
            /\ ret' = [op |-> "previousQuestion",
                       outcome |-> getCurrentQuestion(questions, currentQuestionIndex - 1)]
       ELSE /\ ret' = [op |-> "previousQuestion", outcome |-> Return(Null)]
            /\ UNCHANGED currentQuestionIndex
    /\ UNCHANGED <<questions, timeRemaining, mode, timer, score, examDuration,
                   examInProgress, examCompleted, intervals>>

\* a jumpToQuestion that accepts the index one past the last record
JumpToQuestionThroughLength(index) ==
    /\ IF index >= 0 /\ index <= Len(questions)
       THEN /\ currentQuestionIndex' = index
            /\ ret' = [op |-> "jumpToQuestion", index |-> index,
                       outcome |-> getCurrentQuestion(questions, index)]
       ELSE /\ ret' = [op |-> "jumpToQuestion", index |-> index,
                       outcome |-> Throw(InvalidIndex)]
            /\ UNCHANGED currentQuestionIndex
    /\ UNCHANGED <<questions, timeRemaining, mode, timer, score, examDuration,
                   examInProgress, examCompleted, intervals>>

JumpToQuestion(index) ==
    /\ IF index >= 0 /\ index < Len(questions)
       THEN /\ currentQuestionIndex' = index
            /\ ret' = [op |-> "jumpToQuestion", index |-> index,
                       outcome |-> getCurrentQuestion(questions, index)]
       ELSE /\ ret' = [op |-> "jumpToQuestion", index |-> index,
                       outcome |-> Throw(InvalidIndex)]
            /\ UNCHANGED currentQuestionIndex
    /\ UNCHANGED <<questions, timeRemaining, mode, timer, score, examDuration,
                   examInProgress, examCompleted, intervals>>

EndExam ==
    /\ EndExamBody
    /\ ret' = [op |-> "endExam",
               outcome |-> Return([score |-> score',
                                   totalQuestions |-> Len(questions),
                                   answeredQuestions |-> AnsweredCount(questions),
                                   percentage |-> Percentage(score', Len(questions))])]
    /\ UNCHANGED <<questions, currentQuestionIndex, timeRemaining, mode, examDuration>>

GetResults ==
    /\ ret' = [op |-> "getResults",
               outcome |->
                   Return([score |-> score,
                           totalQuestions |-> Len(questions),
                           answeredQuestions |-> AnsweredCount(questions),
                           percentage |-> Percentage(score, Len(questions)),
                           questions |->
                               [i \in 1..Len(questions) |->
                                   [text |-> questions[i].text,
                                    userAnswer |-> questions[i].userAnswer,
                                    correctAnswer |-> questions[i].correctAnswer,
                                    isCorrect |-> questions[i].userAnswer
                                                    = questions[i].correctAnswer,
                                    explanation |-> Or(questions[i].explanation,
                                                       NoExplanation)]]])]
    /\ UNCHANGED SessionVars

\* a switchToReviewMode that clears the answers
SwitchToReviewModeClearing ==
    /\ mode' = "study"
    /\ currentQuestionIndex' = 0
    /\ questions' = [i \in 1..Len(questions) |-> [questions[i] EXCEPT !.userAnswer = Null]]
    /\ ret' = [op |-> "switchToReviewMode", outcome |-> getCurrentQuestion(questions', 0)]
    /\ UNCHANGED <<timeRemaining, timer, score, examDuration, examInProgress,
                   examCompleted, intervals>>

SwitchToReviewMode ==
    /\ mode' = "study"
    /\ currentQuestionIndex' = 0
    /\ ret' = [op |-> "switchToReviewMode", outcome |-> getCurrentQuestion(questions, 0)]
    /\ UNCHANGED <<questions, timeRemaining, timer, score, examDuration, examInProgress,
                   examCompleted, intervals>>

Reset ==
    /\ questions' = <<>>
    /\ currentQuestionIndex' = 0
    /\ timeRemaining' = 0
    /\ score' = 0
    /\ examInProgress' = FALSE
    /\ examCompleted' = FALSE
    /\ timer' = IF Truthy(timer) THEN Null ELSE timer
    /\ intervals' = Cleared
    /\ ret' = [op |-> "reset", outcome |-> Return(Undefined)]
    /\ UNCHANGED <<mode, examDuration>>

Init == Constructed /\ ret = [op |-> "new ExamSimulator"]

\* the methods called on the session, the page left as it is
Next ==
    \/ \E file \in SessionFiles : LoadExam(file) /\ UNCHANGED display
    \/ \E m \in Modes, duration \in Durations : StartExam(m, duration) /\ UNCHANGED display
    \/ \E id \in IntervalIds : Tick(id) /\ UNCHANGED display
    \/ \E answerIndex \in AnswerIndices : AnswerQuestion(answerIndex) /\ UNCHANGED display
    \/ NextQuestion /\ UNCHANGED display
    \/ PreviousQuestion /\ UNCHANGED display
    \/ \E index \in JumpIndices : JumpToQuestion(index) /\ UNCHANGED display
    \/ EndExam /\ UNCHANGED display
    \/ GetResults /\ UNCHANGED display
    \/ SwitchToReviewMode /\ UNCHANGED display
    \/ Reset /\ UNCHANGED display

Spec == Init /\ [][Next]_vars

---------------------------------------------------------------------------
(* The percentage of endExam and getResults as a function of the score    *)
(* and the number of records.                                              *)

InitScore ==
    /\ Constructed
    /\ ret \in {[op |-> "score", score |-> sc, total |-> total] :
                    total \in 1..MaxTotal, sc \in 0..MaxTotal}
    /\ ret.score <= ret.total

ComputePercentage ==
    /\ ret.op = "score"
    /\ ret' = [op |-> "percentage", score |-> ret.score, total |-> ret.total,
               percentage |-> Percentage(ret.score, ret.total)]
    /\ UNCHANGED <<SessionVars, display>>

SpecScore == InitScore /\ [][ComputePercentage]_vars

---------------------------------------------------------------------------
(* One exam-mode session at a time, left to its countdown: the user loads  *)
(* a file and starts the exam in exam mode for one minute or more, answers *)
(* and navigates, and neither ends nor restarts nor resets the session     *)
(* while it is in progress.  setInterval runs the callback every second    *)
(* for as long as the interval is armed: the ticks are weakly fair.        *)

ExamDurations == 1..MaxDuration

Ticks == \E id \in IntervalIds : Tick(id) /\ UNCHANGED display

NextCountdown ==
    \/ \E file \in SessionFiles : ~examInProgress /\ LoadExam(file) /\ UNCHANGED display
    \/ \E duration \in ExamDurations :
            ~examInProgress /\ StartExam("exam", duration) /\ UNCHANGED display
    \/ Ticks
    \/ \E answerIndex \in AnswerIndices : AnswerQuestion(answerIndex) /\ UNCHANGED display
    \/ NextQuestion /\ UNCHANGED display
    \/ PreviousQuestion /\ UNCHANGED display

SpecCountdown == Init /\ [][NextCountdown]_vars /\ WF_vars(Ticks)

---------------------------------------------------------------------------
(* The page.  What the user does is a click on a control that is visible;  *)
(* in between the browser runs the interval callback of the session and    *)
(* the updateTimer calls that setTimeout has pending.  A click on Start    *)
(* Exam is taken at the time loadExam settles: the handler goes on at once *)
(* with startExam, before any other event.                                 *)

MaxUpdates == 2

\* updateQuestionDisplay(questionData): the options are rendered with the
\* userAnswer of questionData, the finish button shows at the last question
Rendered(d, questionData) ==
    [d EXCEPT !.shown = questionData.userAnswer,
              !.finish = (questionData.questionIndex = questionData.totalQuestions - 1)]

ClickStart(file, m, duration) ==
    /\ display.upload
    /\ display.updates < MaxUpdates
    /\ IF ParsedFile(file).kind = "throw" \/ ParsedFile(file).value = <<>>
       THEN LoadExam(file) /\ UNCHANGED display
       ELSE /\ questions' = [i \in 1..Len(ParsedFile(file).value) |->
                                [ParsedFile(file).value[i] EXCEPT !.userAnswer = Null]]
            /\ mode' = m
            /\ examDuration' = duration
            /\ currentQuestionIndex' = 0
            /\ score' = 0
            /\ examInProgress' = TRUE
            /\ examCompleted' = FALSE
            /\ IF m = "exam"
               THEN /\ timeRemaining' = duration * 60
                    /\ timer' = Num(CHOOSE id \in IntervalIds : id \notin Cleared)
                    /\ intervals' = Cleared \cup {timer'.n}
               ELSE UNCHANGED <<timeRemaining, timer, intervals>>
            /\ ret' = [op |-> "click start", file |-> file.name, mode |-> m,
                       duration |-> duration,
                       outcome |-> getCurrentQuestion(questions', 0)]
            /\ display' = [Rendered(display, ret'.outcome.value) EXCEPT
                              !.upload = FALSE, !.exam = TRUE,
                              !.updates = IF m = "exam" THEN @ + 1 ELSE @]

\* a pending updateTimer call runs: it returns when no exam is in progress,
\* and otherwise shows the time and schedules itself again
UpdateTimer ==
    /\ display.updates > 0
    /\ display' = IF examInProgress THEN display
                  ELSE [display EXCEPT !.updates = @ - 1]
    /\ ret' = [op |-> "updateTimer"]
    /\ UNCHANGED SessionVars

\* click on an option of the question on display
ClickOption(index) ==
    /\ display.exam
    /\ index < Len(ElementAt(questions, currentQuestionIndex).options.a)
    /\ ~(mode = "study" /\ display.shown # Null)
    /\ AnswerQuestion(index)
    /\ UNCHANGED display

ClickNext ==
    /\ display.exam
    /\ ~display.finish
    /\ NextQuestion
    /\ display' = IF ret'.outcome.value # Null
                  THEN Rendered(display, ret'.outcome.value)
                  ELSE [display EXCEPT !.finish = TRUE]

ClickPrevious ==
    /\ display.exam
    /\ currentQuestionIndex > 0
    /\ PreviousQuestion
    /\ display' = Rendered(display, ret'.outcome.value)

\* click on Finish Exam, confirmed: endExam() of the page
ClickFinish ==
    /\ display.exam
    /\ display.finish
    /\ EndExam
    /\ display' = [display EXCEPT !.exam = FALSE, !.results = TRUE]

ClickReview ==
    /\ display.results
    /\ SwitchToReviewMode
    /\ display' = [Rendered(display, ret'.outcome.value) EXCEPT
                      !.results = FALSE, !.exam = TRUE]

ClickNewExam ==
    /\ display.results
    /\ Reset
    /\ display' = [display EXCEPT !.upload = TRUE, !.exam = FALSE, !.results = FALSE,
                                  !.finish = FALSE]

NextPage ==
    \/ \E file \in SessionFiles, m \in Modes, duration \in ExamDurations :
            ClickStart(file, m, duration)
    \/ Ticks
    \/ UpdateTimer
    \/ \E index \in AnswerIndices : ClickOption(index)
    \/ ClickNext
    \/ ClickPrevious
    \/ ClickFinish
    \/ ClickReview
    \/ ClickNewExam

\* the browser runs the callbacks that are due; the user need not click
SpecPage == Init /\ [][NextPage]_vars /\ WF_vars(Ticks) /\ WF_vars(UpdateTimer)

---------------------------------------------------------------------------
(* The extraction functions called again and again.  Each is a method of   *)
(* an object without fields: what one call could hand to the next is the   *)
(* array it pushed its records onto and the lastIndex of the pattern its   *)
(* loop ran.  A sequence of calls gives the same function the inputs       *)
(* x, y, x; ret records the outcomes so far and what the last call left.   *)

ExtractionFunctions ==
    {"extractQuestionsFromText", "extractQuestionsLenient", "parseFromText",
     "parseFromJSON", "findQuestionsInObject"}

JsonFunctions == {"parseFromJSON", "findQuestionsInObject"}

\* what a call that has run to its end leaves: the array it returned, and
\* the pattern whose last exec found nothing
LeftBy(outcome) ==
    [questions |-> IF outcome.kind = "return" THEN outcome.value ELSE <<>>,
     lastIndex |-> 0]

NothingLeft == [questions |-> <<>>, lastIndex |-> 0]

\* the array and the pattern that were kept from the call before
KeptFromCallBefore(left) == left

\* const questions = [] and the pattern literals, evaluated by every call
NewCall(left) == NothingLeft

\* the records the body of the function finds, the loop of the strict
\* pattern starting at lastIndex
Extracted(fn, input, lastIndex) ==
    CASE fn = "extractQuestionsFromText" ->
            Return(RecordsOf(input,
                       Pattern1Matches(input,
                           [k \in 1..4 |-> LabelPositionsCI(input, OptionLetters[k])],
                           lastIndex + 1)))
      [] fn = "extractQuestionsLenient" -> Return(extractQuestionsLenient(input))
      [] fn = "parseFromText" -> Return(parseFromText(input))
      [] fn = "findQuestionsInObject" -> Return(findQuestionsInObject(input))
      [] fn = "parseFromJSON" -> parseFromJSON(input)

\* the records are pushed onto the array the call began with
PushedOnto(begun, found) ==
    IF found.kind = "return" THEN Return(begun.questions \o found.value) ELSE found

CallOutcome(fn, input, begun) == PushedOnto(begun, Extracted(fn, input, begun.lastIndex))

\* texts: the fragments of VCE text and the pages of PDF text
CallTexts ==
    {Chars(TextFragments[i]) : i \in 1..Len(TextFragments)}
        \cup {PageText(PageItems(PageLines[i], LineThreshold + 1), 1) : i \in 1..Len(PageLines)}

CallQuestion ==
    Obj(<<KV("stem", Str(Chars("Pick one"))),
          KV("choices", Arr(<<Str(Chars("yes")), Str(Chars("no"))>>)),
          KV("answer", Num(1))>>)

CallDocuments ==
    {Nest(place, CallQuestion) : place \in Places}
        \cup {Arr(<<>>), Obj(<<KV("questions", Arr(<<CallQuestion, CallQuestion>>))>>)}

CallsOf(functions, inputs) ==
    {[op |-> "calls", fn |-> fn, inputs |-> <<x, y, x>>, outcomes |-> <<>>,
      left |-> NothingLeft] : fn \in functions, x \in inputs, y \in inputs}

InitCalls ==
    /\ Constructed
    /\ \/ ret \in CallsOf(ExtractionFunctions \ JsonFunctions, CallTexts)
       \/ ret \in CallsOf(JsonFunctions, CallDocuments)

CallExtraction ==
    /\ ret.op = "calls"
    /\ Len(ret.outcomes) < Len(ret.inputs)
    /\ ret' = [ret EXCEPT
                 !.outcomes = Append(@, CallOutcome(ret.fn, ret.inputs[Len(ret.outcomes) + 1],
                                                    NewCall(ret.left))),
                 !.left = LeftBy(CallOutcome(ret.fn, ret.inputs[Len(ret.outcomes) + 1],
                                             NewCall(ret.left)))]
    /\ UNCHANGED <<SessionVars, display>>

SpecCalls == InitCalls /\ [][CallExtraction]_vars

---------------------------------------------------------------------------
(* The strict pattern on texts of well-formed blocks                       *)
(*   <num>. <stem> A. opt1 B. opt2 C. opt3 D. opt4 Answer: C               *)
(* with pairwise distinct numbers.  The parts of a block are separated by  *)
(* single spaces or by line breaks, the blocks by a line break.            *)

MaxBlocks == 2

BlockNumbers == {"1", "2", "7", "10"}
BlockStems == {"What is the capital of France?", "Which planet is red?"}
BlockOptions ==
    {<<"Paris", "Rome", "Oslo", "Bonn">>, <<"Mars", "Venus", "Earth", "Pluto">>}
BlockSeparators == {" ", "\n"}

Blocks ==
    {[num |-> num, stem |-> stem, options |-> options] :
        num \in BlockNumbers, stem \in BlockStems, options \in BlockOptions}

BlockText(b, sep) ==
    Chars(b.num) \o Chars(". ") \o Chars(b.stem) \o <<sep>>
        \o Concat([k \in 1..4 |-> <<OptionLetters[k]>> \o Chars(". ")
                                      \o Chars(b.options[k]) \o <<sep>>])
        \o Chars("Answer: C")

BlocksText(blocks, sep) ==
    Concat([i \in 1..Len(blocks) |-> BlockText(blocks[i], sep) \o <<"\n">>])

BlockSequences ==
    {bs \in SeqsUpTo(Blocks, MaxBlocks) :
        /\ bs # <<>>
        /\ \A i, j \in 1..Len(bs) : i # j => bs[i].num # bs[j].num}

InitBlocks ==
    /\ Constructed
    /\ ret \in {[op |-> "blocks", blocks |-> bs, text |-> BlocksText(bs, sep)] :
                    bs \in BlockSequences, sep \in BlockSeparators}

\* the records of the matches of the first pattern
StrictRecords(text, matches) == [i \in 1..Len(matches) |-> Pattern1Record(text, matches[i])]

ExtractStrict ==
    /\ ret.op = "blocks"
    /\ ret' = [op |-> "extractQuestionsFromText", blocks |-> ret.blocks, text |-> ret.text,
               strict |-> StrictRecords(ret.text,
                              Pattern1Matches(ret.text,
                                  [k \in 1..4 |-> LabelPositionsCI(ret.text, OptionLetters[k])],
                                  1)),
               questions |-> extractQuestionsFromText(ret.text)]
    /\ UNCHANGED <<SessionVars, display>>

SpecBlocks == InitBlocks /\ [][ExtractStrict]_vars

---------------------------------------------------------------------------
(* parseFromText on texts of a few lines, where the generic line scan is   *)
(* the approach that finds the questions: the options are written with a   *)
(* parenthesis or a space after the letter, or there is only one of them.  *)

MaxLines == 3

ScanLines ==
    {"Is it so?", "This line is a long one of more than fifty characters in all",
     "A) yes", "B) no", "D maybe", "see below"}

LinesText(lines) == Concat([i \in 1..Len(lines) |-> Chars(lines[i]) \o <<"\n">>])

InitLines ==
    /\ Constructed
    /\ ret \in {[op |-> "lines", lines |-> lines] :
                    lines \in SeqsUpTo(ScanLines, MaxLines) \ {<<>>}}

ScanText ==
    /\ ret.op = "lines"
    /\ ret' = [op |-> "parseFromText", lines |-> ret.lines,
               earlier |-> OrElse(MapConcat(NonEmpty(SplitOnDelimiter(LinesText(ret.lines), 1,
                                                                      "QUESTION")),
                                            VceBlock),
                                  MapConcat(NumberedMatches(LinesText(ret.lines), 1),
                                            NumberedQuestion)),
               questions |-> parseFromText(LinesText(ret.lines))]
    /\ UNCHANGED <<SessionVars, display>>

SpecLines == InitLines /\ [][ScanText]_vars

---------------------------------------------------------------------------
(* parseFromJSON on elements that hold one alias of a field, both or none. *)
(* An element sits in the questions array of the root, in exam.questions,  *)
(* or in an array at the root, where findQuestionsInObject maps it.        *)

Absent == [t |-> "absent"]

AliasValues ==
    [text |-> {Absent, EmptyStr, Str(Chars("Pick one"))},
     question |-> {Absent, Str(Chars("Which one"))},
     options |-> {Absent, Arr(<<>>), Arr(<<Str(Chars("yes")), Str(Chars("no"))>>)},
     answers |-> {Absent, Arr(<<Str(Chars("a")), Str(Chars("b"))>>)},
     correctAnswer |-> {Absent, Num(0), Num(1)},
     correct |-> {Absent, Num(2)}]

\* the object with the keys that are present
ElementOf(t, q, o, a, ca, c) ==
    Obj(SelectSeq(<<KV("text", t), KV("question", q), KV("options", o), KV("answers", a),
                    KV("correctAnswer", ca), KV("correct", c)>>,
                  LAMBDA kv : kv.v # Absent))

AliasElements ==
    {ElementOf(t, q, o, a, ca, c) :
        t \in AliasValues.text, q \in AliasValues.question, o \in AliasValues.options,
        a \in AliasValues.answers, ca \in AliasValues.correctAnswer,
        c \in AliasValues.correct}

ElementPlaces == {"questions", "exam.questions", "array"}

PlacedElement(place, q) ==
    CASE place = "questions" -> Obj(<<KV("questions", Arr(<<q>>))>>)
      [] place = "exam.questions" ->
            Obj(<<KV("exam", Obj(<<KV("questions", Arr(<<q>>))>>))>>)
      [] place = "array" -> Arr(<<q>>)

InitAliases ==
    /\ Constructed
    /\ ret \in {[op |-> "element", place |-> place, element |-> q] :
                    place \in ElementPlaces, q \in AliasElements}

MapElement ==
    /\ ret.op = "element"
    /\ ret' = [op |-> "parseFromJSON", place |-> ret.place, element |-> ret.element,
               outcome |-> parseFromJSON(PlacedElement(ret.place, ret.element))]
    /\ UNCHANGED <<SessionVars, display>>

SpecAliases == InitAliases /\ [][MapElement]_vars

---------------------------------------------------------------------------
(* Properties of the parsers *)

\* the content opens with one of the binary signatures
IsSigned(content) ==
    \E k \in 1..Len(possibleSignatures) : StartsAt(content, 1, possibleSignatures[k])

\* C1: for every input text, the empty string included, text extraction
\* hands the session a list of at least one record.  Stated here for the
\* VCE text path: VCEParser.parse of a file of plain text returns, and
\* returns at least one record.
C1_TextPathNeverEmpty ==
    (ret.op = "VCEParser.parse" /\ ret.file.content \in TextContents) =>
        /\ ret.trace.outcome.kind = "return"
        /\ Len(ret.trace.outcome.value) >= 1

\* C2: PDFParser.parse returns normally; when the whole-document, the
\* per-page and the lenient strategy all yield no record it returns exactly
\* one placeholder record with four options, correctAnswer 0, a non-empty
\* explanation and userAnswer null, and it returns the placeholder in no
\* other case.
C2_PlaceholderIffNothingFound ==
    ret.op = "PDFParser.parse" =>
        LET allZero ==
                /\ extractQuestionsFromText(ret.fullText) = <<>>
                /\ \A i \in 1..Len(ret.pageTexts) :
                      extractQuestionsFromText(ret.pageTexts[i]) = <<>>
                /\ extractQuestionsLenient(ret.fullText) = <<>>
            value == ret.trace.outcome.value
        IN  /\ ret.trace.outcome.kind = "return"
            /\ allZero =>
                  /\ Len(value) = 1
                  /\ value[1].text.s # <<>>
                  /\ Len(value[1].options.a) = 4
                  /\ value[1].correctAnswer = Num(0)
                  /\ value[1].explanation.s # <<>>
                  /\ value[1].userAnswer = Null
            /\ (value = <<FailedPlaceholder>>) <=> allZero

C2_PlaceholderReturned ==
    /\ ret.op = "PDFParser.parse"
    /\ ret.trace.pageRan /\ ret.trace.lenientRan
    /\ ret.trace.outcome = Return(<<FailedPlaceholder>>)

C4_DispatchOrder ==
    ret.op = "VCEParser.parse" =>
        LET t == ret.trace
            structured == t.fromJSON.kind = "return"
        IN  IF IsSigned(ret.file.content)
            THEN /\ t.outcome = Return(parseBinaryVCE)
                 /\ t.jsonData = NotRun
                 /\ t.fromText = NotRun
            ELSE /\ t.jsonData # NotRun
                 /\ (t.fromText # NotRun) <=> ~structured
                 /\ t.outcome = IF structured THEN t.fromJSON ELSE t.fromText

\* C5: when the content is valid JSON in which neither questions, nor
\* exam.questions, nor the recursive search finds a question,
\* VCEParser.parse fails with the adapter's "no questions found" failure.
C5_NoQuestionsFailureSurfaces ==
    (ret.op = "VCEParser.parse" /\ ret.trace.fromJSON = Throw(NoQuestionsInJSON)) =>
        ret.trace.outcome = Throw(FailedToParse(NoQuestionsInJSON))

\* C6: parseFromJSON on {questions: [q1..qn]}, every qi with text, options
\* and correctAnswer, returns n records in the same order; record i has the
\* text, options and correctAnswer of qi, and userAnswer null.
C6_PassThrough ==
    (ret.op = "parseFromJSON" /\ ret.jsonData \in DirectDocuments) =>
        LET qs == Get(ret.jsonData, "questions").a
            value == ret.outcome.value
        IN  /\ ret.outcome.kind = "return"
            /\ Len(value) = Len(qs)
            /\ \A i \in 1..Len(qs) :
                  /\ value[i].text = Get(qs[i], "text")
                  /\ value[i].options = Get(qs[i], "options")
                  /\ value[i].correctAnswer = Get(qs[i], "correctAnswer")
                  /\ value[i].userAnswer = Null

C6_TwoPassedWithZeroAnswer ==
    /\ ret.op = "parseFromJSON"
    /\ ret.jsonData \in DirectDocuments
    /\ Len(ret.outcome.value) = MaxQuestions
    /\ ret.outcome.value[1].correctAnswer = Num(0)
    /\ ret.outcome.value[1].text = EmptyStr
    /\ ret.outcome.value[2].options = Arr(<<>>)

\* the value under the one key of keys that q has
Aliased(q, keys) == Get(q, CHOOSE k \in keys : HasKey(q, k))

\* C7: when exactly one node below the root looks like a question, as an
\* array element or as the value of an object property, parseFromJSON
\* returns exactly one record with text from text|question|stem, options
\* from options|answers|choices and correctAnswer from
\* correctAnswer|correct|answer.
C7_OneNodeOneRecord ==
    ret.op = "parseFromJSON" =>
        \A place \in Places \ {"root"}, q \in AliasQuestions :
            ret.jsonData = Nest(place, q) =>
                /\ ret.outcome.kind = "return"
                /\ Len(ret.outcome.value) = 1
                /\ ret.outcome.value[1].text = Aliased(q, TextKeys)
                /\ ret.outcome.value[1].options = Aliased(q, OptionsKeys)
                /\ ret.outcome.value[1].correctAnswer = Aliased(q, AnswerKeys)

---------------------------------------------------------------------------
(* Properties of the session *)

\* C8: startExam(mode, duration) on a loaded record set leaves
\* currentQuestionIndex 0, score 0, examInProgress true, examCompleted
\* false and every userAnswer null, and after it a countdown is armed, with
\* timeRemaining = duration * 60, if and only if mode is 'exam'.
C8_StartExam ==
    (ret.op = "startExam" /\ questions # <<>>) =>
        /\ currentQuestionIndex = 0
        /\ score = 0
        /\ examInProgress
        /\ ~examCompleted
        /\ \A i \in 1..Len(questions) : questions[i].userAnswer = Null
        /\ (intervals # {}) <=> ret.mode = "exam"
        /\ ret.mode = "exam" => timeRemaining = ret.duration * 60

\* C9: answerQuestion(i) stores i as userAnswer of the record at
\* currentQuestionIndex and changes no other record; in study mode it
\* returns isCorrect = (i = correctAnswer), the correct answer and the
\* explanation, in exam mode only {recorded: true}.
C9_AnswerQuestion ==
    [][(ret'.op = "answerQuestion" /\ ret'.outcome.kind = "return") =>
          LET at == currentQuestionIndex + 1
              question == questions[at]
          IN  /\ questions' = [questions EXCEPT ![at].userAnswer = Num(ret'.answerIndex)]
              /\ mode = "study" =>
                    /\ ret'.outcome.value.isCorrect
                          = (Num(ret'.answerIndex) = question.correctAnswer)
                    /\ ret'.outcome.value.correctAnswer = question.correctAnswer
                    /\ ret'.outcome.value.explanation
                          = IF question.explanation = EmptyStr
                            THEN NoExplanation ELSE question.explanation
              /\ mode = "exam" => ret'.outcome.value = [recorded |-> TRUE]]_vars

C9_AnsweredSecondInStudy ==
    /\ ret.op = "answerQuestion"
    /\ ret.outcome.kind = "return"
    /\ mode = "study"
    /\ Len(questions) = 2
    /\ currentQuestionIndex = 1
    /\ ret.outcome.value.isCorrect
    /\ ret.outcome.value.explanation = NoExplanation
    /\ questions[1].userAnswer # questions[2].userAnswer

\* C10: nextQuestion and previousQuestion move currentQuestionIndex by
\* exactly one; nextQuestion at the last index and previousQuestion at index
\* 0 return null, do not fail and leave currentQuestionIndex unchanged.
C10_NextPrevious ==
    [][/\ ret'.op = "nextQuestion" =>
            IF currentQuestionIndex < Len(questions) - 1
            THEN currentQuestionIndex' = currentQuestionIndex + 1
            ELSE /\ ret'.outcome = Return(Null)
                 /\ currentQuestionIndex' = currentQuestionIndex
       /\ ret'.op = "previousQuestion" =>
            IF currentQuestionIndex > 0
            THEN currentQuestionIndex' = currentQuestionIndex - 1
            ELSE /\ ret'.outcome = Return(Null)
                 /\ currentQuestionIndex' = currentQuestionIndex]_vars

C10_NextAtLastQuestion ==
    /\ ret.op = "nextQuestion"
    /\ ret.outcome = Return(Null)
    /\ Len(questions) = 2
    /\ currentQuestionIndex = 1

\* C11: jumpToQuestion(i) on N records fails with 'Invalid question index'
\* for every i < 0 and every i >= N and then changes nothing of the session;
\* for 0 <= i < N it sets currentQuestionIndex to i.
C11_JumpToQuestion ==
    [][ret'.op = "jumpToQuestion" =>
          IF ret'.index < 0 \/ ret'.index >= Len(questions)
          THEN /\ ret'.outcome = Throw(InvalidIndex)
               /\ UNCHANGED SessionVars
          ELSE /\ ret'.outcome.kind = "return"
               /\ currentQuestionIndex' = ret'.index]_vars

C11_JumpToLengthRefused ==
    /\ ret.op = "jumpToQuestion"
    /\ Len(questions) = 2
    /\ ret.index = Len(questions)
    /\ ret.outcome = Throw(InvalidIndex)
    /\ currentQuestionIndex = 1

\* round(sc / total * 100), halves upwards: the integer p with
\* p - 1/2 <= 100 * sc / total < p + 1/2
IsRounded(p, sc, total) ==
    /\ 2 * total * p <= 200 * sc + total
    /\ 200 * sc + total < 2 * total * (p + 1)

\* C12, on the sessions of Spec: endExam returns score = the number of
\* records whose userAnswer equals correctAnswer and percentage =
\* round(score / total * 100), stores the score and sets examInProgress
\* false and examCompleted true; with one record the score is 1 and the
\* percentage 100 when the answer given is the correct one, and the score is
\* 0 otherwise.
C12_EndExam ==
    [][ret'.op = "endExam" =>
          LET result == ret'.outcome.value
              matching == {i \in 1..Len(questions) :
                              questions[i].userAnswer = questions[i].correctAnswer}
          IN  /\ ret'.outcome.kind = "return"
              /\ result.score = Cardinality(matching)
              /\ score' = result.score
              /\ result.totalQuestions = Len(questions)
              /\ Len(questions) > 0 =>
                    /\ result.percentage.t = "num"
                    /\ IsRounded(result.percentage.n, result.score, Len(questions))
              /\ Len(questions) = 1 =>
                    IF questions[1].userAnswer = questions[1].correctAnswer
                    THEN result.score = 1 /\ result.percentage = Num(100)
                    ELSE result.score = 0 /\ result.percentage = Num(0)
              /\ ~examInProgress'
              /\ examCompleted']_vars

C12_OneOfTwoCorrect ==
    /\ ret.op = "endExam"
    /\ Len(questions) = 2
    /\ AnsweredCount(questions) = 2
    /\ ret.outcome.value.score = 1
    /\ ret.outcome.value.percentage = Num(50)

\* C13: in an exam-mode session started with duration d >= 1 every tick
\* decreases timeRemaining by exactly 1, and the tick that brings it to zero
\* ends the session in the same step (examInProgress false, examCompleted
\* true, score computed, interval cleared).  Nothing but startExam, which
\* sets d * 60, and the ticks changes timeRemaining, and a session in
\* progress has between 1 and d * 60 seconds left: it is completed after
\* exactly d * 60 ticks, and with ticks firing it is eventually completed.
C13_Countdown ==
    /\ [][ret'.op = "tick" =>
             /\ timeRemaining' = timeRemaining - 1
             /\ IF timeRemaining' = 0
                THEN /\ ~examInProgress'
                     /\ examCompleted'
                     /\ score' = Cardinality({i \in 1..Len(questions) :
                                    questions[i].userAnswer = questions[i].correctAnswer})
                     /\ timer' = Null
                     /\ intervals' = {}
                ELSE /\ timeRemaining' > 0
                     /\ UNCHANGED <<examInProgress, examCompleted, score, timer, intervals>>]_vars
    /\ [][ret'.op = "startExam" => timeRemaining' = ret'.duration * 60]_vars
    /\ [][ret'.op \notin {"tick", "startExam"} => UNCHANGED timeRemaining]_vars
    /\ [](examInProgress => (timeRemaining \in 1..(examDuration * 60) /\ intervals # {}))
    /\ (examInProgress ~> (examCompleted /\ timeRemaining = 0))

C13_TimeUp ==
    /\ ret.op = "tick"
    /\ mode = "exam"
    /\ examDuration = 1
    /\ timeRemaining = 0
    /\ examCompleted
    /\ ~examInProgress
    /\ score = 1

\* C14: after endExam and after reset no countdown callback is armed and
\* timer is null, whatever preceded; and while none is armed no tick
\* happens, and none gets armed but by a startExam in exam mode.
C14_NoCountdownSurvives ==
    [][/\ ret'.op \in {"endExam", "reset"} => (timer' = Null /\ intervals' = {})
       /\ (intervals = {} /\ ~(ret'.op = "startExam" /\ ret'.mode = "exam")) =>
              /\ ret'.op # "tick"
              /\ intervals' = {}
              /\ ret'.op \notin {"reset", "startExam"} => UNCHANGED timeRemaining]_vars

C14_EndedWhileCountingDown ==
    /\ ret.op = "endExam"
    /\ mode = "exam"
    /\ examDuration = 1
    /\ timeRemaining = 59
    /\ timer = Null
    /\ intervals = {}

\* C15: switchToReviewMode sets mode to 'study' and currentQuestionIndex to
\* 0 and leaves the record set with every userAnswer, the score and the
\* flags examInProgress and examCompleted unchanged.
C15_SwitchToReviewMode ==
    [][ret'.op = "switchToReviewMode" =>
          /\ mode' = "study"
          /\ currentQuestionIndex' = 0
          /\ UNCHANGED <<questions, score, examInProgress, examCompleted>>]_vars

C15_ReviewAfterExam ==
    /\ ret.op = "switchToReviewMode"
    /\ ret.outcome.kind = "return"
    /\ examCompleted
    /\ score = 1
    /\ AnsweredCount(questions) = 2
    /\ timeRemaining = 59

\* C16: while the exam is in progress, an answer event for a question
\* whose userAnswer has been set does not change it.
C16_AnsweredOnce ==
    [][(/\ ret'.op = "answerQuestion"
        /\ ret'.outcome.kind = "return"
        /\ examInProgress
        /\ IsAnswered(questions[currentQuestionIndex + 1])) =>
          questions' = questions]_vars

\* C17: no operation but loadExam and reset changes the number or the
\* order of the records or a record's text, options, correctAnswer or
\* explanation; userAnswer is changed by startExam and answerQuestion only,
\* and by answerQuestion only while examInProgress is true.
C17_RecordsOwned ==
    [][/\ ret'.op \notin {"loadExam", "reset"} =>
              /\ Len(questions') = Len(questions)
              /\ \A i \in 1..Len(questions) :
                    /\ questions'[i].text = questions[i].text
                    /\ questions'[i].options = questions[i].options
                    /\ questions'[i].correctAnswer = questions[i].correctAnswer
                    /\ questions'[i].explanation = questions[i].explanation
              /\ questions' # questions => ret'.op \in {"startExam", "answerQuestion"}
       /\ (ret'.op = "answerQuestion" /\ questions' # questions) => examInProgress]_vars


C19_StrictPattern ==
    ret.op = "extractQuestionsFromText" =>
        /\ Len(ret.strict) = Len(ret.blocks)
        /\ \A i \in 1..Len(ret.strict) :
              /\ ret.strict[i].options =
                    Arr([k \in 1..4 |-> Str(Chars(ret.blocks[i].options[k]))])
              /\ ret.strict[i].correctAnswer = Num(2)

\* C20: every record a text strategy produces has its correctAnswer within
\* its options, 0 <= correctAnswer < options.length
C20_AnswerWithinOptions ==
    (ret.op = "calls" /\ ret.fn \notin JsonFunctions) =>
        \A i \in 1..Len(ret.outcomes) :
            \A k \in 1..Len(ret.outcomes[i].value) :
                /\ ret.outcomes[i].value[k].correctAnswer.n >= 0
                /\ ret.outcomes[i].value[k].correctAnswer.n
                        < Len(ret.outcomes[i].value[k].options.a)

\* the option strings collected for a record: the entries of its options
\* that were assigned
Collected(question) ==
    {k \in 1..Len(question.options.a) : question.options.a[k] # Undefined}

\* C21: every record the generic line scan emits has at least 2 collected
\* option strings, and every entry of its options is a collected string
C21_LineScanRecords ==
    (ret.op = "parseFromText" /\ ret.earlier = <<>>) =>
        \A i \in 1..Len(ret.questions) :
            /\ Cardinality(Collected(ret.questions[i])) >= MinOptions
            /\ \A k \in 1..Len(ret.questions[i].options.a) :
                  ret.questions[i].options.a[k].t = "str"

\* the value of the first alias when that key is present, otherwise of the
\* second, and the default when neither is
ByPresence(q, first, second, default) ==
    IF HasKey(q, first) THEN Get(q, first)
    ELSE IF HasKey(q, second) THEN Get(q, second)
    ELSE default

\* C22: the record of an element takes text from `text` when that key is
\* present and otherwise from `question`, options from `options` and
\* otherwise `answers`, correctAnswer from `correctAnswer` and otherwise
\* `correct`, and the defaults only when no alias of the field is present
C22_AliasPrecedence ==
    (ret.op = "parseFromJSON" /\ ret.outcome.kind = "return") =>
        /\ Len(ret.outcome.value) = 1
        /\ ret.outcome.value[1].text = ByPresence(ret.element, "text", "question", EmptyStr)
        /\ ret.outcome.value[1].options
                = ByPresence(ret.element, "options", "answers", Arr(<<>>))
        /\ ret.outcome.value[1].correctAnswer
                = ByPresence(ret.element, "correctAnswer", "correct", Num(0))

\* C23: parseFromJSON returns a list of at least one record or fails with
\* the error of the unrecognised structure, and never returns an empty list
C23_RecordsOrNotRecognised ==
    ret.op = "parseFromJSON" =>
        \/ ret.outcome.kind = "return" /\ Len(ret.outcome.value) >= 1
        \/ ret.outcome.kind = "throw" /\ ret.outcome.error = NoQuestionsInJSON

\* the line break that goes before fragment i of a page, if any
BreakBefore(items, i) ==
    IF i > 1 /\ (items[i].y - items[i - 1].y > 5 \/ items[i - 1].y - items[i].y > 5)
    THEN <<"\n">> ELSE <<>>

\* C24: the text of a page is the strings of its fragments in order, with
\* one line break before a fragment exactly when its vertical coordinate
\* differs from the previous fragment's by more than 5 and nothing else
\* between them; the text of the document is every page text followed by
\* a blank line, in page order
C24_TextNormalizer ==
    ret.op = "PDFParser.parse" =>
        LET pages == PdfDocument(ret.file).pages
        IN  /\ Len(ret.pageTexts) = Len(pages)
            /\ \A p \in 1..Len(pages) :
                  ret.pageTexts[p] =
                      Concat([i \in 1..Len(pages[p]) |->
                                  BreakBefore(pages[p], i) \o pages[p][i].str])
            /\ ret.fullText =
                  Concat([p \in 1..Len(pages) |-> ret.pageTexts[p] \o <<"\n", "\n">>])

\* a file of two pages whose lines are exactly 5 apart was read: the first
\* page has several lines and its text has no line break
C24_LinesFiveApart ==
    /\ ret.op = "PDFParser.parse"
    /\ ret.file.pitch = 5
    /\ Len(ret.file.layout) = 2
    /\ Len(PageLines[ret.file.layout[1]]) > 1
    /\ \A k \in 1..Len(ret.pageTexts[1]) : ret.pageTexts[1][k] # "\n"
    /\ ret.fullText # <<"\n", "\n", "\n", "\n">>

\* C25: whenever the countdown is armed the session is in progress in exam
\* mode
C25_ArmedOnlyInExamMode ==
    timer # Null => (examInProgress /\ mode = "exam")

\* C26: whenever examCompleted is true the stored score is the number of
\* records whose userAnswer equals correctAnswer
C26_ScoreMatchesAnswers ==
    examCompleted => score = ComputedScore(questions)

\* C27: a loadExam that fails leaves the record set, currentQuestionIndex,
\* score, examInProgress and examCompleted as they were before the call
C27_FailedLoadChangesNothing ==
    [][(ret'.op = "loadExam" /\ ret'.outcome.kind = "throw") =>
            UNCHANGED <<questions, currentQuestionIndex, score, examInProgress,
                        examCompleted>>]_vars

\* C28: whenever the record set is not empty, currentQuestionIndex is the
\* index of one of its records
C28_IndexWithinRecords ==
    questions # <<>> => (currentQuestionIndex >= 0 /\ currentQuestionIndex < Len(questions))

\* a file of one record was loaded while an exam was in progress
C28_LoadedOverLastQuestion ==
    /\ ret.op = "loadExam"
    /\ ret.outcome.kind = "return"
    /\ ret.file = "scan.PDF"
    /\ Len(questions) = 1
    /\ examInProgress

\* C29: examInProgress and examCompleted are never both true, and
\* examCompleted becomes true only through endExam, called by the user or
\* by the countdown reaching zero
C29_InProgressOrCompleted ==
    /\ [](~(examInProgress /\ examCompleted))
    /\ [][(~examCompleted /\ examCompleted') =>
              \/ ret'.op = "endExam"
              \/ ret'.op = "tick" /\ timeRemaining' <= 0]_vars

\* the user ended a study-mode exam with both questions answered right:
\* the exam is completed and no longer in progress
C29_EndedByUser ==
    /\ ret.op = "endExam"
    /\ mode = "study"
    /\ examCompleted
    /\ ~examInProgress
    /\ score = 2

\* C30: the page is never on the question view of a completed exam-mode
\* session, where a click on an option still records an answer; and once
\* the countdown has ended the session the results view shows, without a
\* click
C30_ResultsAfterTimeUp ==
    /\ [](~(display.exam /\ examCompleted /\ mode = "exam"))
    /\ ((ret.op = "tick" /\ examCompleted) ~> display.results)

=============================================================================
